---- MODULE Spec2Model ----
(***************************************************************************)
(* Model of the Markdown syntax-tree-to-AST converter (parseNode and its   *)
(* helpers parseChildren, parseAttributeNode, genericTextNode).            *)
(*                                                                         *)
(* Text is a sequence of one-character strings; offsets are zero-based as  *)
(* in the source.  A syntax node is a record [name, from, to, children]    *)
(* where children is the sequence of its direct sub-nodes in document      *)
(* order (firstChild / nextSibling navigation).  An AST node is a record   *)
(* whose fields are those of the TypeScript interfaces; optional fields    *)
(* that are not set are absent from the record.  A raised exception is the *)
(* record [type |-> "Throw", error |-> ...].                               *)
(***************************************************************************)
EXTENDS Integers, Sequences, FiniteSets, TLC

VARIABLES markdown, tree, edits, pc, target, result

vars == <<markdown, tree, edits, pc, target, result>>

----------------------------------------------------------------------------
(* JavaScript string primitives used by the converter.                     *)

Min(a, b) == IF a <= b THEN a ELSE b
Max(a, b) == IF a >= b THEN a ELSE b

Clamp(i, n) == Max(0, Min(i, n))

\* String.prototype.substring: both indices are clamped to [0, length] and
\* swapped when start > end.
substring(s, start, end) ==
  LET a == Clamp(start, Len(s))
      b == Clamp(end, Len(s))
  IN SubSeq(s, Min(a, b) + 1, Max(a, b))

WhiteSpace == {" ", "\n", "\t"}

\* The grave accent character, named because the TLA+ lexer pairs a literal
\* grave accent with a later prime.
BackQuote == "grave"

RECURSIVE trimStart(_)
trimStart(s) ==
  IF s # <<>> /\ Head(s) \in WhiteSpace THEN trimStart(Tail(s)) ELSE s

RECURSIVE trimEnd(_)
trimEnd(s) ==
  IF s # <<>> /\ s[Len(s)] \in WhiteSpace
  THEN trimEnd(SubSeq(s, 1, Len(s) - 1))
  ELSE s

\* String.prototype.trim
trim(s) == trimEnd(trimStart(s))

startsWith(s, c) == s # <<>> /\ Head(s) = c
endsWith(s, c) == s # <<>> /\ s[Len(s)] = c
includes(s, c) == \E i \in 1..Len(s) : s[i] = c

\* rawString.split(/\s+/): the pieces between maximal runs of whitespace; a
\* leading or trailing run leaves an empty first or last piece.
RECURSIVE splitWS(_, _, _)
splitWS(s, cur, inRun) ==
  IF s = <<>> THEN <<cur>>
  ELSE IF Head(s) \in WhiteSpace
       THEN IF inRun THEN splitWS(Tail(s), cur, TRUE)
            ELSE <<cur>> \o splitWS(Tail(s), <<>>, TRUE)
       ELSE splitWS(Tail(s), Append(cur, Head(s)), FALSE)

splitWhitespace(s) == splitWS(s, <<>>, FALSE)

\* attribute.split('=')
RECURSIVE splitEq(_, _)
splitEq(s, cur) ==
  IF s = <<>> THEN <<cur>>
  ELSE IF Head(s) = "=" THEN <<cur>> \o splitEq(Tail(s), <<>>)
       ELSE splitEq(Tail(s), Append(cur, Head(s)))

splitEquals(s) == splitEq(s, <<>>)

----------------------------------------------------------------------------
(* The syntax tree provider (@lezer/common SyntaxNode).                    *)

Node(kind, from, to, children) ==
  [name |-> kind, from |-> from, to |-> to, children |-> children]

Leaf(kind, from, to) == Node(kind, from, to, <<>>)

\* node.firstChild === null
noChild(node) == node.children = <<>>

\* node.getChildren(kind): the direct sub-nodes of that kind, in order
getChildren(node, kind) == SelectSeq(node.children, LAMBDA c : c.name = kind)

Null == [name |-> "null"]
isNull(n) == n.name = "null"

\* node.getChild(kind): the first direct sub-node of that kind, or null
getChild(node, kind) ==
  LET cs == getChildren(node, kind)
  IN IF cs = <<>> THEN Null ELSE cs[1]

----------------------------------------------------------------------------
(* The converter.                                                          *)

EMPTY_NODES ==
  { "HeaderMark", "CodeMark", "EmphasisMark", "QuoteMark", "ListMark",
    "YAMLFrontmatterStart", "YAMLFrontmatterEnd", "Document", "List",
    "ListItem", "PandocAttribute" }

Throw(e) == [type |-> "Throw", error |-> e]
IsThrow(r) == r.type = "Throw"

genericTextNode(from, to, value) ==
  [type |-> "Text", name |-> "text", from |-> from, to |-> to, value |-> value]

\* The keys "class" and "id" of the attributes record, as text.
KeyClass == <<"c", "l", "a", "s", "s">>
KeyId == <<"i", "d">>

\* obj[key] = value on a Record<string, string>
setKey(obj, key, value) == (key :> value) @@ obj

\* One iteration of the for-loop of parseAttributeNode.
applyAttribute(old, attribute) ==
  IF startsWith(attribute, ".")
  THEN IF KeyClass \in DOMAIN old
       THEN setKey(old, KeyClass, old[KeyClass] \o <<" ">> \o Tail(attribute))
       ELSE setKey(old, KeyClass, Tail(attribute))
  ELSE IF startsWith(attribute, "#") /\ KeyId \notin DOMAIN old
  THEN setKey(old, KeyId, Tail(attribute))
  ELSE IF includes(attribute, "=")
  THEN LET parts == splitEquals(attribute)
       IN IF Len(parts) = 2 THEN setKey(old, parts[1], parts[2]) ELSE old
  ELSE old

RECURSIVE applyAttributes(_, _)
applyAttributes(old, rawAttributes) ==
  IF rawAttributes = <<>> THEN old
  ELSE applyAttributes(applyAttribute(old, Head(rawAttributes)), Tail(rawAttributes))

NoAttributes == <<>>

parseAttributeNode(oldAttributes, node, md) ==
  IF node.name # "PandocAttribute" THEN oldAttributes
  ELSE applyAttributes(oldAttributes,
         splitWhitespace(substring(md, node.from + 1, node.to - 1)))

\* astNode.attributes, or the default parameter value {} when it is undefined
attributesOf(astNode) ==
  IF "attributes" \in DOMAIN astNode THEN astNode.attributes ELSE NoAttributes

setField(astNode, field, value) == (field :> value) @@ astNode

RECURSIVE parseNode(_, _)
RECURSIVE parseChildrenLoop(_, _, _, _, _)

\* The loop of parseChildren without the text leaf for the gap before a sub-node.
RECURSIVE parseChildrenLoopNoGap(_, _, _, _, _)
parseChildrenLoopNoGap(astNode, node, md, i, currentIndex) ==
  IF i > Len(node.children)
  THEN IF currentIndex < node.to /\ node.name \notin EMPTY_NODES
       THEN setField(astNode, "children",
              Append(astNode.children,
                     genericTextNode(currentIndex, node.to,
                                     substring(md, currentIndex, node.to))))
       ELSE astNode
  ELSE
    LET currentChild == node.children[i]
    IN IF currentChild.name = "PandocAttribute"
       THEN parseChildrenLoopNoGap(
              setField(astNode, "attributes",
                       parseAttributeNode(attributesOf(astNode), currentChild, md)),
              node, md, i + 1, currentChild.to)
       ELSE LET sub == parseNode(currentChild, md)
            IN IF IsThrow(sub) THEN sub
               ELSE parseChildrenLoopNoGap(
                      setField(astNode, "children", Append(astNode.children, sub)),
                      node, md, i + 1, currentChild.to)

\* The loop of parseChildren merging an attribute block into the child converted
\* just before it, if there is one.
parseChildrenLoopToSibling(astNode, node, md, i, currentIndex) ==
  IF i > Len(node.children)
  THEN IF currentIndex < node.to /\ node.name \notin EMPTY_NODES
       THEN setField(astNode, "children",
              Append(astNode.children,
                     genericTextNode(currentIndex, node.to,
                                     substring(md, currentIndex, node.to))))
       ELSE astNode
  ELSE
    LET currentChild == node.children[i]
        withGap ==
          IF currentChild.from > currentIndex /\ node.name \notin EMPTY_NODES
          THEN setField(astNode, "children",
                 Append(astNode.children,
                        genericTextNode(currentIndex, currentChild.from,
                                        substring(md, currentIndex, currentChild.from))))
          ELSE astNode
        last == Len(withGap.children)
    IN IF currentChild.name = "PandocAttribute"
       THEN parseChildrenLoop(
              IF last > 0
              THEN setField(withGap, "children",
                     [withGap.children EXCEPT ![last] =
                        setField(@, "attributes",
                                 parseAttributeNode(attributesOf(@), currentChild, md))])
              ELSE setField(withGap, "attributes",
                            parseAttributeNode(attributesOf(withGap), currentChild, md)),
              node, md, i + 1, currentChild.to)
       ELSE LET sub == parseNode(currentChild, md)
            IN IF IsThrow(sub) THEN sub
               ELSE parseChildrenLoop(
                      setField(withGap, "children", Append(withGap.children, sub)),
                      node, md, i + 1, currentChild.to)

\* The loop of parseChildren testing the kind of the sub-node, not that of the
\* aggregated node, before it adds the text of a gap.
parseChildrenLoopChildKind(astNode, node, md, i, currentIndex) ==
  IF i > Len(node.children)
  THEN IF currentIndex < node.to /\ node.name \notin EMPTY_NODES
       THEN setField(astNode, "children",
              Append(astNode.children,
                     genericTextNode(currentIndex, node.to,
                                     substring(md, currentIndex, node.to))))
       ELSE astNode
  ELSE
    LET currentChild == node.children[i]
        withGap ==
          IF currentChild.from > currentIndex /\ currentChild.name \notin EMPTY_NODES
          THEN setField(astNode, "children",
                 Append(astNode.children,
                        genericTextNode(currentIndex, currentChild.from,
                                        substring(md, currentIndex, currentChild.from))))
          ELSE astNode
    IN IF currentChild.name = "PandocAttribute"
       THEN parseChildrenLoop(
              setField(withGap, "attributes",
                       parseAttributeNode(attributesOf(withGap), currentChild, md)),
              node, md, i + 1, currentChild.to)
       ELSE LET sub == parseNode(currentChild, md)
            IN IF IsThrow(sub) THEN sub
               ELSE parseChildrenLoop(
                      setField(withGap, "children", Append(withGap.children, sub)),
                      node, md, i + 1, currentChild.to)

\* The while-loop of parseChildren from sub-node number i on, followed by the
\* final gap test.
parseChildrenLoop(astNode, node, md, i, currentIndex) ==
  IF i > Len(node.children)
  THEN IF currentIndex < node.to /\ node.name \notin EMPTY_NODES
       THEN setField(astNode, "children",
              Append(astNode.children,
                     genericTextNode(currentIndex, node.to,
                                     substring(md, currentIndex, node.to))))
       ELSE astNode
  ELSE
    LET currentChild == node.children[i]
        withGap ==
          IF currentChild.from > currentIndex /\ node.name \notin EMPTY_NODES
          THEN setField(astNode, "children",
                 Append(astNode.children,
                        genericTextNode(currentIndex, currentChild.from,
                                        substring(md, currentIndex, currentChild.from))))
          ELSE astNode
    IN IF currentChild.name = "PandocAttribute"
       THEN parseChildrenLoop(
              setField(withGap, "attributes",
                       parseAttributeNode(attributesOf(withGap), currentChild, md)),
              node, md, i + 1, currentChild.to)
       ELSE LET sub == parseNode(currentChild, md)
            IN IF IsThrow(sub) THEN sub
               ELSE parseChildrenLoop(
                      setField(withGap, "children", Append(withGap.children, sub)),
                      node, md, i + 1, currentChild.to)

\* parseChildren without the text leaf of a node that has no sub-nodes.
parseChildrenNoLeafText(astNode, node, md) ==
  IF noChild(node) THEN astNode
  ELSE parseChildrenLoop(setField(astNode, "children", <<>>), node, md, 1, node.from)

parseChildren(astNode, node, md) ==
  IF noChild(node)
  THEN IF node.name \notin EMPTY_NODES
       THEN setField(astNode, "children",
              <<genericTextNode(node.from, node.to, substring(md, node.from, node.to))>>)
       ELSE astNode
  ELSE parseChildrenLoop(setField(astNode, "children", <<>>), node, md, 1, node.from)

\* The Image/Link case aggregating the sub-nodes of a link without a URL.
parseLinkOrImageAggregated(node, md) ==
  LET url == getChild(node, "URL")
      marks == getChildren(node, "LinkMark")
      alt == getChild(node, "LinkLabel")
  IN IF isNull(url)
     THEN parseChildren([type |-> "Generic", name |-> node.name,
                         from |-> node.from, to |-> node.to, children |-> <<>>],
                        node, md)
     ELSE [type |-> node.name, name |-> node.name, from |-> node.from, to |-> node.to,
           url |-> genericTextNode(url.from, url.to, substring(md, url.from, url.to)),
           alt |-> IF isNull(alt) /\ Len(marks) >= 2
                   THEN genericTextNode(marks[1].to, marks[2].from,
                                        substring(md, marks[1].to, marks[2].from))
                   ELSE genericTextNode(url.from, url.to,
                                        substring(md, url.from, url.to))]

\* case 'Image' / 'Link'
parseLinkOrImage(node, md) ==
  LET alt == getChild(node, "LinkLabel")
      url == getChild(node, "URL")
      marks == getChildren(node, "LinkMark")
  IN IF isNull(url)
     THEN [type |-> "Generic", name |-> node.name, from |-> node.from, to |-> node.to,
           children |-> <<genericTextNode(node.from, node.to,
                                          substring(md, node.from, node.to))>>]
     ELSE [type |-> node.name, name |-> node.name, from |-> node.from, to |-> node.to,
           url |-> genericTextNode(url.from, url.to, substring(md, url.from, url.to)),
           alt |-> IF isNull(alt) /\ Len(marks) >= 2
                   THEN genericTextNode(marks[1].to, marks[2].from,
                                        substring(md, marks[1].to, marks[2].from))
                   ELSE genericTextNode(url.from, url.to,
                                        substring(md, url.from, url.to))]

\* case 'URL'
parseURL(node, md) ==
  [type |-> "Link", name |-> node.name, from |-> node.from, to |-> node.to,
   url |-> genericTextNode(node.from, node.to, substring(md, node.from, node.to)),
   alt |-> genericTextNode(node.from, node.to, substring(md, node.from, node.to))]

\* The level a heading kind is named after.
KindLevel(kind) ==
  CASE kind = "ATXHeading1" -> 1 [] kind = "ATXHeading2" -> 2
    [] kind = "ATXHeading3" -> 3 [] kind = "ATXHeading4" -> 4
    [] kind = "ATXHeading5" -> 5 [] OTHER -> 6

\* The ATX heading case taking the level from the kind name.
parseATXHeadingByKind(node, md) ==
  LET mark == getChild(node, "HeaderMark")
      start == IF ~isNull(mark) THEN mark.to ELSE node.from
  IN [type |-> "Heading", name |-> node.name, from |-> node.from, to |-> node.to,
      value |-> genericTextNode(start, node.to, trim(substring(md, start, node.to))),
      level |-> KindLevel(node.name)]

\* case 'ATXHeading1' .. 'ATXHeading6'
parseATXHeading(node, md) ==
  LET mark == getChild(node, "HeaderMark")
      level == IF ~isNull(mark) THEN mark.to - mark.from ELSE 0
      start == IF ~isNull(mark) THEN mark.to ELSE node.from
  IN [type |-> "Heading", name |-> node.name, from |-> node.from, to |-> node.to,
      value |-> genericTextNode(start, node.to, trim(substring(md, start, node.to))),
      level |-> level]

\* The Setext heading case taking the level from the kind name.
parseSetextHeadingByKind(node, md) ==
  LET mark == getChild(node, "HeaderMark")
      start == IF ~isNull(mark) THEN mark.to ELSE node.from
      end == IF ~isNull(mark) THEN mark.from ELSE node.to
  IN [type |-> "Heading", name |-> node.name, from |-> node.from, to |-> node.to,
      value |-> genericTextNode(start, node.to, trim(substring(md, node.from, end))),
      level |-> IF node.name = "SetextHeading2" THEN 2 ELSE 1]

\* case 'SetextHeading1' / 'SetextHeading2'
parseSetextHeading(node, md) ==
  LET mark == getChild(node, "HeaderMark")
      level == IF ~isNull(mark) /\ includes(substring(md, mark.from, mark.to), "-")
               THEN 2 ELSE 1
      start == IF ~isNull(mark) THEN mark.to ELSE node.from
      end == IF ~isNull(mark) THEN mark.from ELSE node.to
  IN [type |-> "Heading", name |-> node.name, from |-> node.from, to |-> node.to,
      value |-> genericTextNode(start, node.to, trim(substring(md, node.from, end))),
      level |-> level]

\* The citation extractor (@common/util/extract-citations), an external
\* collaborator: a code holding a citekey marker yields one citation position.
extractCitations(code) ==
  IF includes(code, "@")
  THEN <<[from |-> 0, to |-> Len(code), source |-> code]>>
  ELSE <<>>

\* case 'Citation'
parseCitation(node, md) ==
  LET code == substring(md, node.from, node.to)
      found == extractCitations(code)
      astNode == [name |-> "Citation", type |-> "Citation",
                  value |-> genericTextNode(node.from, node.to, code),
                  from |-> node.from, to |-> node.to]
  IN IF found = <<>> THEN astNode ELSE setField(astNode, "parsedCitation", found[1])

\* The footnote case with the contents trimmed of whitespace.
parseFootnoteTrimmed(node, md) ==
  LET contents == trim(substring(md, node.from + 2, node.to - 1))
  IN [type |-> "Footnote", name |-> "Footnote", from |-> node.from,
      inline |-> endsWith(contents, "^"), to |-> node.to,
      label |-> IF endsWith(contents, "^")
                THEN substring(contents, 0, Len(contents) - 1)
                ELSE contents]

\* case 'Footnote'
parseFootnote(node, md) ==
  LET contents == substring(md, node.from + 2, node.to - 1)
  IN [type |-> "Footnote", name |-> "Footnote", from |-> node.from,
      inline |-> endsWith(contents, "^"), to |-> node.to,
      label |-> IF endsWith(contents, "^")
                THEN substring(contents, 0, Len(contents) - 1)
                ELSE contents]

\* parseFootnoteRef with the node built over the body's range.
parseFootnoteRefBodyRange(node, md) ==
  LET label == getChild(node, "FootnoteRefLabel")
      body == getChild(node, "FootnoteRefBody")
      astNode == [type |-> "FootnoteRef", name |-> "FootnoteRef",
                  from |-> IF isNull(body) THEN node.from ELSE body.from,
                  to |-> IF isNull(body) THEN node.to ELSE body.to,
                  label |-> IF ~isNull(label)
                            THEN substring(md, label.from + 2, label.to - 2)
                            ELSE <<>>,
                  children |-> <<>>]
  IN IF ~isNull(body) THEN parseChildren(astNode, body, md) ELSE astNode

\* The FootnoteRef case stripping one character, not two, from the end of the
\* label.
parseFootnoteRefKeepColon(node, md) ==
  LET label == getChild(node, "FootnoteRefLabel")
      body == getChild(node, "FootnoteRefBody")
      astNode == [type |-> "FootnoteRef", name |-> "FootnoteRef",
                  from |-> node.from, to |-> node.to,
                  label |-> IF ~isNull(label)
                            THEN substring(md, label.from + 2, label.to - 1)
                            ELSE <<>>,
                  children |-> <<>>]
  IN IF ~isNull(body) THEN parseChildren(astNode, body, md) ELSE astNode

\* case 'FootnoteRef'
parseFootnoteRef(node, md) ==
  LET label == getChild(node, "FootnoteRefLabel")
      body == getChild(node, "FootnoteRefBody")
      astNode == [type |-> "FootnoteRef", name |-> "FootnoteRef",
                  from |-> node.from, to |-> node.to,
                  label |-> IF ~isNull(label)
                            THEN substring(md, label.from + 2, label.to - 2)
                            ELSE <<>>,
                  children |-> <<>>]
  IN IF ~isNull(body) THEN parseChildren(astNode, body, md) ELSE astNode

\* The Highlight case building the node over the range of its content while it
\* aggregates the whole node.
parseHighlightContentRange(node, md) ==
  LET content == getChild(node, "HighlightContent")
      inner == IF isNull(content) THEN node ELSE content
      astNode == [type |-> "Highlight", name |-> "Highlight",
                  from |-> inner.from, to |-> inner.to, children |-> <<>>]
  IN parseChildren(astNode, node, md)

\* case 'Highlight'
parseHighlight(node, md) ==
  LET content == getChild(node, "HighlightContent")
      astNode == [type |-> "Highlight", name |-> "Highlight",
                  from |-> node.from, to |-> node.to, children |-> <<>>]
  IN parseChildren(astNode, IF isNull(content) THEN node ELSE content, md)

\* The array a for-loop has filled when it ends without an exception.
Pushed(seq) == [type |-> "Array", seq |-> seq]

\* The loop body reading the task marker without regard to case.
parseListItemAnyCase(item, ordered, md) ==
  LET listMark == getChild(item, "ListMark")
      marker0 == [from |-> item.from, to |-> item.from]
      marker1 == IF isNull(listMark) THEN marker0
                 ELSE [from |-> listMark.from, to |-> listMark.to]
      marker == IF ~isNull(listMark) /\ ~ordered /\ listMark.to - listMark.from = 1
                THEN setField(marker1, "symbol",
                              substring(md, listMark.from, listMark.to))
                ELSE marker1
      task == getChild(item, "Task")
      taskMarker == IF ~isNull(task) THEN getChild(task, "TaskMarker") ELSE Null
      listItem0 == [type |-> "ListItem", name |-> "ListItem",
                    from |-> item.from, to |-> item.to,
                    children |-> <<>>, marker |-> marker]
      listItem == IF ~isNull(taskMarker)
                  THEN setField(listItem0, "checked",
                         substring(md, taskMarker.from, taskMarker.to)
                           \in {<<"[", "x", "]">>, <<"[", "X", "]">>})
                  ELSE listItem0
  IN parseChildren(listItem, item, md)

\* The loop body keeping the symbol of a one-character mark in ordered lists too.
parseListItemAnySymbol(item, ordered, md) ==
  LET listMark == getChild(item, "ListMark")
      marker0 == [from |-> item.from, to |-> item.from]
      marker1 == IF isNull(listMark) THEN marker0
                 ELSE [from |-> listMark.from, to |-> listMark.to]
      marker == IF ~isNull(listMark) /\ listMark.to - listMark.from = 1
                THEN setField(marker1, "symbol",
                              substring(md, listMark.from, listMark.to))
                ELSE marker1
      task == getChild(item, "Task")
      taskMarker == IF ~isNull(task) THEN getChild(task, "TaskMarker") ELSE Null
      listItem0 == [type |-> "ListItem", name |-> "ListItem",
                    from |-> item.from, to |-> item.to,
                    children |-> <<>>, marker |-> marker]
      listItem == IF ~isNull(taskMarker)
                  THEN setField(listItem0, "checked",
                         substring(md, taskMarker.from, taskMarker.to)
                           = <<"[", "x", "]">>)
                  ELSE listItem0
  IN parseChildren(listItem, item, md)

\* The body of the for-loop over the ListItem sub-nodes of a list.
parseListItem(item, ordered, md) ==
  LET listMark == getChild(item, "ListMark")
      marker0 == [from |-> item.from, to |-> item.from]
      marker1 == IF isNull(listMark) THEN marker0
                 ELSE [from |-> listMark.from, to |-> listMark.to]
      marker == IF ~isNull(listMark) /\ ~ordered /\ listMark.to - listMark.from = 1
                THEN setField(marker1, "symbol",
                              substring(md, listMark.from, listMark.to))
                ELSE marker1
      task == getChild(item, "Task")
      taskMarker == IF ~isNull(task) THEN getChild(task, "TaskMarker") ELSE Null
      listItem0 == [type |-> "ListItem", name |-> "ListItem",
                    from |-> item.from, to |-> item.to,
                    children |-> <<>>, marker |-> marker]
      listItem == IF ~isNull(taskMarker)
                  THEN setField(listItem0, "checked",
                         substring(md, taskMarker.from, taskMarker.to)
                           = <<"[", "x", "]">>)
                  ELSE listItem0
  IN parseChildren(listItem, item, md)

\* The for-loop over node.getChildren('ListItem'): items pushed so far, or the
\* exception that ended the loop.
RECURSIVE parseListItems(_, _, _, _)
parseListItems(items, ordered, md, acc) ==
  IF items = <<>> THEN Pushed(acc)
  ELSE LET it == parseListItem(Head(items), ordered, md)
       IN IF IsThrow(it) THEN it
          ELSE parseListItems(Tail(items), ordered, md, Append(acc, it))

\* case 'OrderedList' / 'BulletList'
parseList(node, md) ==
  LET ordered == node.name = "OrderedList"
      items == parseListItems(getChildren(node, "ListItem"), ordered, md, <<>>)
  IN IF IsThrow(items) THEN items
     ELSE [type |-> "List", name |-> node.name, ordered |-> ordered,
           from |-> node.from, to |-> node.to, items |-> items.seq]

\* The code block case without the exchange of the info string for a double
\* dollar mark.
parseCodeInfoOnly(node, md) ==
  LET info == getChild(node, "CodeInfo")
      source == getChild(node, "CodeText")
      isFrontmatter == ~isNull(getChild(node, "YAMLFrontmatterStart"))
  IN [type |-> IF isFrontmatter THEN "YAMLFrontmatter" ELSE "FencedCode",
      name |-> IF isFrontmatter THEN "YAMLFrontmatter" ELSE "FencedCode",
      from |-> node.from, to |-> node.to,
      info |-> IF ~isNull(info) THEN substring(md, info.from, info.to) ELSE <<>>,
      source |-> IF ~isNull(source) THEN substring(md, source.from, source.to)
                 ELSE <<>>]

\* case 'FencedCode' / 'CodeBlock'
parseCode(node, md) ==
  LET info0 == getChild(node, "CodeInfo")
      mark == getChild(node, "CodeMark")
      info == IF ~isNull(mark) /\ substring(md, mark.from, mark.to) = <<"$", "$">>
              THEN mark ELSE info0
      source == getChild(node, "CodeText")
      isFrontmatter == ~isNull(getChild(node, "YAMLFrontmatterStart"))
  IN [type |-> IF isFrontmatter THEN "YAMLFrontmatter" ELSE "FencedCode",
      name |-> IF isFrontmatter THEN "YAMLFrontmatter" ELSE "FencedCode",
      from |-> node.from, to |-> node.to,
      info |-> IF ~isNull(info) THEN substring(md, info.from, info.to) ELSE <<>>,
      source |-> IF ~isNull(source) THEN substring(md, source.from, source.to)
                 ELSE <<>>]

\* The inline code case keeping the two marks in the source.
parseInlineCodeWithMarks(node, md) ==
  LET codeMarks == getChildren(node, "CodeMark")
  IN IF Len(codeMarks) < 2 THEN Throw("TypeError")
     ELSE [type |-> "InlineCode", name |-> "InlineCode",
           from |-> node.from, to |-> node.to,
           source |-> substring(md, codeMarks[1].from, codeMarks[2].to)]

\* case 'InlineCode': destructuring fewer than two CodeMark sub-nodes leaves
\* start or end undefined, and reading start.to or end.from raises a TypeError.
parseInlineCode(node, md) ==
  LET codeMarks == getChildren(node, "CodeMark")
  IN IF Len(codeMarks) < 2 THEN Throw("TypeError")
     ELSE [type |-> "InlineCode", name |-> "InlineCode",
           from |-> node.from, to |-> node.to,
           source |-> substring(md, codeMarks[1].to, codeMarks[2].from)]

\* case 'Emphasis' / 'StrongEmphasis'
parseEmphasis(node, md) ==
  parseChildren([type |-> "Emphasis", name |-> "Emphasis",
                 which |-> IF node.name = "Emphasis" THEN "italic" ELSE "bold",
                 from |-> node.from, to |-> node.to, children |-> <<>>],
                node, md)

\* The inner for-loop of the Table case over row.getChildren('TableCell').
RECURSIVE parseTableCells(_, _, _)
parseTableCells(cells, md, acc) ==
  IF cells = <<>> THEN Pushed(acc)
  ELSE LET cell == Head(cells)
           cellNode == parseChildren([type |-> "TableCell", name |-> "TableCell",
                                      from |-> cell.from, to |-> cell.to,
                                      children |-> <<>>], cell, md)
       IN IF IsThrow(cellNode) THEN cellNode
          ELSE parseTableCells(Tail(cells), md, Append(acc, cellNode))

\* The outer for-loop of the Table case over [ ...header, ...rows ].
RECURSIVE parseTableRows(_, _, _)
parseTableRows(rows, md, acc) ==
  IF rows = <<>> THEN Pushed(acc)
  ELSE LET row == Head(rows)
           cells == parseTableCells(getChildren(row, "TableCell"), md, <<>>)
       IN IF IsThrow(cells) THEN cells
          ELSE parseTableRows(Tail(rows), md,
                 Append(acc, [type |-> "TableRow", name |-> row.name,
                              from |-> row.from, to |-> row.to,
                              isHeaderOrFooter |-> row.name = "TableHeader",
                              cells |-> cells.seq]))

\* The Table case converting header and body rows in document order.
parseTableDocumentOrder(node, md) ==
  LET rows == SelectSeq(node.children, LAMBDA c : c.name \in {"TableHeader", "TableRow"})
      converted == parseTableRows(rows, md, <<>>)
  IN IF IsThrow(converted) THEN converted
     ELSE [type |-> "Table", name |-> "Table", from |-> node.from, to |-> node.to,
           rows |-> converted.seq]

\* case 'Table'
parseTable(node, md) ==
  LET header == getChildren(node, "TableHeader")
      rows == getChildren(node, "TableRow")
      converted == parseTableRows(header \o rows, md, <<>>)
  IN IF IsThrow(converted) THEN converted
     ELSE [type |-> "Table", name |-> "Table", from |-> node.from, to |-> node.to,
           rows |-> converted.seq]

\* parseZknLink substituting a placeholder for the missing content.
parseZknLinkPlaceholder(node, md) ==
  LET content == getChild(node, "ZknLinkContent")
      inner == IF isNull(content) THEN node ELSE content
  IN [type |-> "ZettelkastenLink", name |-> "ZknLink",
      from |-> node.from, to |-> node.to,
      value |-> genericTextNode(inner.from, inner.to,
                                substring(md, inner.from, inner.to))]

\* case 'ZknLink'
parseZknLink(node, md) ==
  LET content == getChild(node, "ZknLinkContent")
  IN IF isNull(content) THEN Throw("Error")
     ELSE [type |-> "ZettelkastenLink", name |-> "ZknLink",
           from |-> node.from, to |-> node.to,
           value |-> genericTextNode(content.from, content.to,
                                     substring(md, content.from, content.to))]

\* case 'ZknTag'
parseZknTag(node, md) ==
  [type |-> "ZettelkastenTag", name |-> "ZknTag", from |-> node.from, to |-> node.to,
   value |-> genericTextNode(node.from, node.to, substring(md, node.from, node.to))]

\* The default case naming every generic node "Generic".
parseGenericUnnamed(node, md) ==
  parseChildren([type |-> "Generic", name |-> "Generic",
                 from |-> node.from, to |-> node.to, children |-> <<>>],
                node, md)

\* The default case giving a node without sub-nodes its text, whatever its kind.
parseGenericMarkText(node, md) ==
  IF noChild(node)
  THEN [type |-> "Generic", name |-> node.name, from |-> node.from, to |-> node.to,
        children |-> <<genericTextNode(node.from, node.to,
                                       substring(md, node.from, node.to))>>]
  ELSE parseChildren([type |-> "Generic", name |-> node.name,
                      from |-> node.from, to |-> node.to, children |-> <<>>],
                     node, md)

\* default case
parseGeneric(node, md) ==
  parseChildren([type |-> "Generic", name |-> node.name,
                 from |-> node.from, to |-> node.to, children |-> <<>>],
                node, md)

ATXHeadings ==
  { "ATXHeading1", "ATXHeading2", "ATXHeading3", "ATXHeading4", "ATXHeading5",
    "ATXHeading6" }

\* The kinds that have a case of their own in the switch of parseNode.
SpecialKinds ==
  { "Image", "Link", "URL", "SetextHeading1", "SetextHeading2", "Citation",
    "Footnote", "FootnoteRef", "Highlight", "OrderedList", "BulletList",
    "FencedCode", "CodeBlock", "InlineCode", "Emphasis", "StrongEmphasis",
    "Table", "ZknLink", "ZknTag" } \cup ATXHeadings

parseNode(node, md) ==
  CASE node.name \in {"Image", "Link"} -> parseLinkOrImage(node, md)
    [] node.name = "URL" -> parseURL(node, md)
    [] node.name \in ATXHeadings -> parseATXHeading(node, md)
    [] node.name \in {"SetextHeading1", "SetextHeading2"} -> parseSetextHeading(node, md)
    [] node.name = "Citation" -> parseCitation(node, md)
    [] node.name = "Footnote" -> parseFootnote(node, md)
    [] node.name = "FootnoteRef" -> parseFootnoteRef(node, md)
    [] node.name = "Highlight" -> parseHighlight(node, md)
    [] node.name \in {"OrderedList", "BulletList"} -> parseList(node, md)
    [] node.name \in {"FencedCode", "CodeBlock"} -> parseCode(node, md)
    [] node.name = "InlineCode" -> parseInlineCode(node, md)
    [] node.name \in {"Emphasis", "StrongEmphasis"} -> parseEmphasis(node, md)
    [] node.name = "Table" -> parseTable(node, md)
    [] node.name = "ZknLink" -> parseZknLink(node, md)
    [] node.name = "ZknTag" -> parseZknTag(node, md)
    [] OTHER -> parseGeneric(node, md)

----------------------------------------------------------------------------
(* The inputs: Markdown documents with the syntax trees the parser yields  *)
(* for them.  A later snapshot of a tree may lack sub-nodes, up to         *)
(* MaxEdits in all (the text of a missing sub-node stays in the source,    *)
(* unwrapped), or have one node of another kind.                           *)

\* An ATX heading and a paragraph with an emphasis span.
HeadingDoc ==
  [markdown |-> << "#", " ", "a", "\n", "b", " ", "*", "c", "*", " ", "d" >>,
   tree |->
      Node("Document", 0, 11, <<
          Node("ATXHeading1", 0, 3, <<
              Leaf("HeaderMark", 0, 1) >>),
          Node("Paragraph", 4, 11, <<
              Node("Emphasis", 6, 9, <<
                  Leaf("EmphasisMark", 6, 7),
                  Leaf("EmphasisMark", 8, 9) >>) >>) >>) ]

\* An image with a Pandoc attribute block of its own.
ImageDoc ==
  [markdown |-> << "!", "[", "a", "]", "(", "u", ")", "{", ".", "c", "}" >>,
   tree |->
      Node("Document", 0, 11, <<
          Node("Paragraph", 0, 11, <<
              Node("Image", 0, 11, <<
                  Leaf("LinkMark", 0, 2),
                  Leaf("LinkMark", 3, 4),
                  Leaf("LinkMark", 4, 5),
                  Leaf("URL", 5, 6),
                  Leaf("LinkMark", 6, 7),
                  Leaf("PandocAttribute", 7, 11) >>) >>) >>) ]

\* A reference link (label, no URL) and an autolink.
LinkDoc ==
  [markdown |-> << "[", "a", "]", "[", "r", "]", " ", "<", "u", ">" >>,
   tree |->
      Node("Document", 0, 10, <<
          Node("Paragraph", 0, 10, <<
              Node("Link", 0, 6, <<
                  Leaf("LinkMark", 0, 1),
                  Leaf("LinkMark", 2, 3),
                  Leaf("LinkLabel", 3, 6) >>),
              Node("Autolink", 7, 10, <<
                  Leaf("LinkMark", 7, 8),
                  Leaf("URL", 8, 9),
                  Leaf("LinkMark", 9, 10) >>) >>) >>) ]

\* An inline code span and a fenced code block with an info string.
CodeDoc ==
  [markdown |-> << BackQuote, "a", BackQuote, "\n", "\n", BackQuote, BackQuote, BackQuote, "p", "\n", "x", "\n", BackQuote, BackQuote, BackQuote >>,
   tree |->
      Node("Document", 0, 15, <<
          Node("Paragraph", 0, 3, <<
              Node("InlineCode", 0, 3, <<
                  Leaf("CodeMark", 0, 1),
                  Leaf("CodeMark", 2, 3) >>) >>),
          Node("FencedCode", 5, 15, <<
              Leaf("CodeMark", 5, 8),
              Leaf("CodeInfo", 8, 9),
              Leaf("CodeText", 10, 11),
              Leaf("CodeMark", 12, 15) >>) >>) ]

\* A YAML frontmatter and a math block fenced by double dollars.
FrontmatterDoc ==
  [markdown |-> << "-", "-", "-", "\n", "k", "\n", "-", "-", "-", "\n", "$", "$", "\n", "x", "\n", "$", "$" >>,
   tree |->
      Node("Document", 0, 17, <<
          Node("FencedCode", 0, 9, <<
              Leaf("YAMLFrontmatterStart", 0, 3),
              Leaf("CodeText", 4, 5),
              Leaf("YAMLFrontmatterEnd", 6, 9) >>),
          Node("FencedCode", 10, 17, <<
              Leaf("CodeMark", 10, 12),
              Leaf("CodeText", 13, 14),
              Leaf("CodeMark", 15, 17) >>) >>) ]

\* A bullet list: a checked task item and an item holding a Zettelkasten link.
ListDoc ==
  [markdown |-> << "-", " ", "[", "x", "]", " ", "a", "\n", "+", " ", "[", "[", "b", "]", "]" >>,
   tree |->
      Node("Document", 0, 15, <<
          Node("BulletList", 0, 15, <<
              Node("ListItem", 0, 7, <<
                  Leaf("ListMark", 0, 1),
                  Node("Task", 2, 7, <<
                      Leaf("TaskMarker", 2, 5) >>) >>),
              Node("ListItem", 8, 15, <<
                  Leaf("ListMark", 8, 9),
                  Node("Paragraph", 10, 15, <<
                      Node("ZknLink", 10, 15, <<
                          Leaf("ZknLinkContent", 12, 13) >>) >>) >>) >>) >>) ]

\* An ordered list with an unchecked task item.
OrderedListDoc ==
  [markdown |-> << "1", ".", " ", "[", " ", "]", " ", "a" >>,
   tree |->
      Node("Document", 0, 8, <<
          Node("OrderedList", 0, 8, <<
              Node("ListItem", 0, 8, <<
                  Leaf("ListMark", 0, 2),
                  Node("Task", 3, 8, <<
                      Leaf("TaskMarker", 3, 6) >>) >>) >>) >>) ]

\* A table: a header row, the delimiter line and a body row.
TableDoc ==
  [markdown |-> << "|", "a", "|", "\n", "|", "-", "|", "\n", "|", "[", "[", "b", "]", "]", "|" >>,
   tree |->
      Node("Document", 0, 15, <<
          Node("Table", 0, 15, <<
              Node("TableHeader", 0, 3, <<
                  Leaf("TableDelimiter", 0, 1),
                  Leaf("TableCell", 1, 2),
                  Leaf("TableDelimiter", 2, 3) >>),
              Leaf("TableDelimiter", 4, 7),
              Node("TableRow", 8, 15, <<
                  Node("TableCell", 9, 14, <<
                      Node("ZknLink", 9, 14, <<
                          Leaf("ZknLinkContent", 11, 12) >>) >>) >>) >>) >>) ]

\* A footnote marker and the footnote definition.
FootnoteDoc ==
  [markdown |-> << "a", "[", "^", "1", "]", "\n", "[", "^", "1", "]", ":", " ", "b", " ", "*", "c", "*" >>,
   tree |->
      Node("Document", 0, 17, <<
          Node("Paragraph", 0, 5, <<
              Leaf("Footnote", 1, 5) >>),
          Node("FootnoteRef", 6, 17, <<
              Leaf("FootnoteRefLabel", 6, 11),
              Node("FootnoteRefBody", 12, 17, <<
                  Node("Emphasis", 14, 17, <<
                      Leaf("EmphasisMark", 14, 15),
                      Leaf("EmphasisMark", 16, 17) >>) >>) >>) >>) ]

\* A highlight span with an emphasis span in it.
HighlightDoc ==
  [markdown |-> << "=", "=", "a", " ", "*", "b", "*", "=", "=" >>,
   tree |->
      Node("Document", 0, 9, <<
          Node("Paragraph", 0, 9, <<
              Node("Highlight", 0, 9, <<
                  Leaf("HighlightMark", 0, 2),
                  Node("HighlightContent", 2, 7, <<
                      Node("Emphasis", 4, 7, <<
                          Leaf("EmphasisMark", 4, 5),
                          Leaf("EmphasisMark", 6, 7) >>) >>),
                  Leaf("HighlightMark", 7, 9) >>) >>) >>) ]

\* A block quote with a Zettelkasten link, a tag and a citation.
ZknDoc ==
  [markdown |-> << ">", " ", "[", "[", "x", "]", "]", " ", "#", "t", " ", "[", "@", "k", "]" >>,
   tree |->
      Node("Document", 0, 15, <<
          Node("Blockquote", 0, 15, <<
              Leaf("QuoteMark", 0, 1),
              Node("Paragraph", 2, 15, <<
                  Node("ZknLink", 2, 7, <<
                      Leaf("ZknLinkContent", 4, 5) >>),
                  Leaf("ZknTag", 8, 10),
                  Leaf("Citation", 11, 15) >>) >>) >>) ]

\* Two Setext headings, underlined with dashes and with equals signs.
SetextDoc ==
  [markdown |-> << "a", "\n", "-", "-", "\n", "\n", "b", "\n", "=", "=" >>,
   tree |->
      Node("Document", 0, 10, <<
          Node("SetextHeading2", 0, 4, <<
              Leaf("HeaderMark", 2, 4) >>),
          Node("SetextHeading1", 6, 10, <<
              Leaf("HeaderMark", 8, 10) >>) >>) ]

\* A node of an unknown kind with two Pandoc attribute blocks.
AttributeDoc ==
  [markdown |-> << "a", "{", ".", "x", "}", " ", "*", "*", "b", "*", "*", "{", "#", "i", "}" >>,
   tree |->
      Node("Document", 0, 15, <<
          Node("Foo", 0, 15, <<
              Leaf("PandocAttribute", 1, 5),
              Node("StrongEmphasis", 6, 11, <<
                  Leaf("EmphasisMark", 6, 8),
                  Leaf("EmphasisMark", 9, 11) >>),
              Leaf("PandocAttribute", 11, 15) >>) >>) ]

\* A bullet list: a task item marked with a capital X, a checked task item and
\* a plain item.
TaskDoc ==
  [markdown |-> << "-", " ", "[", "X", "]", " ", "a", "\n", "-", " ", "[", "x", "]", " ", "b", "\n", "-", " ", "c" >>,
   tree |->
      Node("Document", 0, 19, <<
          Node("BulletList", 0, 19, <<
              Node("ListItem", 0, 7, <<
                  Leaf("ListMark", 0, 1),
                  Node("Task", 2, 7, <<
                      Leaf("TaskMarker", 2, 5) >>) >>),
              Node("ListItem", 8, 15, <<
                  Leaf("ListMark", 8, 9),
                  Node("Task", 10, 15, <<
                      Leaf("TaskMarker", 10, 13) >>) >>),
              Node("ListItem", 16, 19, <<
                  Leaf("ListMark", 16, 17),
                  Leaf("Paragraph", 18, 19) >>) >>) >>) ]

\* An inline code span around text that reads as a highlight.
InlineDoc ==
  [markdown |-> << BackQuote, "=", "=", "a", "=", "=", BackQuote >>,
   tree |->
      Node("Document", 0, 7, <<
          Node("Paragraph", 0, 7, <<
              Node("InlineCode", 0, 7, <<
                  Leaf("CodeMark", 0, 1),
                  Leaf("CodeMark", 6, 7) >>) >>) >>) ]

Corpus ==
  { HeadingDoc,
    ImageDoc,
    LinkDoc,
    CodeDoc,
    FrontmatterDoc,
    ListDoc,
    OrderedListDoc,
    TableDoc,
    FootnoteDoc,
    HighlightDoc,
    ZknDoc,
    SetextDoc,
    AttributeDoc,
    TaskDoc,
    InlineDoc }


MaxEdits == 2

\* The trees obtained from a node by leaving out one of its descendants, with
\* the sub-tree of that descendant.
RECURSIVE DropOne(_)
DropOne(node) ==
  { [node EXCEPT !.children =
       SubSeq(node.children, 1, i - 1) \o SubSeq(node.children, i + 1, Len(node.children))] :
    i \in 1..Len(node.children) }
  \cup UNION { { [node EXCEPT !.children[i] = c] : c \in DropOne(node.children[i]) } :
               i \in 1..Len(node.children) }

\* The kind names the converter and the documents mention, and an unknown one.
Kinds ==
  SpecialKinds \cup EMPTY_NODES \cup
  { "LinkLabel", "LinkMark", "FootnoteRefLabel", "FootnoteRefBody",
    "HighlightContent", "HighlightMark", "Task", "TaskMarker", "CodeInfo",
    "CodeText", "TableHeader", "TableRow", "TableCell", "TableDelimiter",
    "ZknLinkContent", "Paragraph", "Blockquote", "Autolink", "Foo" }

\* The trees obtained from a node by giving it or one of its descendants
\* another kind.
RECURSIVE RekindOne(_)
RekindOne(node) ==
  { [node EXCEPT !.name = k] : k \in Kinds \ {node.name} }
  \cup UNION { { [node EXCEPT !.children[i] = c] : c \in RekindOne(node.children[i]) } :
               i \in 1..Len(node.children) }

\* A node and all its descendants.
RECURSIVE Nodes(_)
Nodes(node) ==
  {node} \cup UNION { Nodes(node.children[i]) : i \in 1..Len(node.children) }

----------------------------------------------------------------------------
(* The state machine: a caller holds a source text and a snapshot of the   *)
(* syntax tree, and applies parseNode to the root or to any node of the    *)
(* tree.  The AST is discarded when the next snapshot arrives.             *)

NoResult == [type |-> "None"]

Init ==
  /\ \E doc \in Corpus :
       /\ markdown = doc.markdown
       /\ tree = doc.tree
  /\ edits = 0
  /\ pc = "idle"
  /\ target = Null
  /\ result = NoResult

\* The syntax tree provider hands over a snapshot that lacks one more sub-node.
Drop ==
  /\ edits < MaxEdits
  /\ tree' \in DropOne(tree)
  /\ edits' = edits + 1
  /\ pc' = "idle"
  /\ target' = Null
  /\ result' = NoResult
  /\ UNCHANGED markdown

\* The syntax tree provider hands over, for the document as parsed, a snapshot
\* in which one node has another kind; no snapshot follows it.
Rekind ==
  /\ edits = 0
  /\ tree' \in RekindOne(tree)
  /\ edits' = MaxEdits
  /\ pc' = "idle"
  /\ target' = Null
  /\ result' = NoResult
  /\ UNCHANGED markdown

\* The caller converts the snapshot it holds: parseNode(n, markdown) returns an
\* AST or raises.
Convert(n) ==
  LET r == parseNode(n, markdown)
  IN /\ pc = "idle"
     /\ target' = n
     /\ result' = r
     /\ pc' = IF IsThrow(r) THEN "raised" ELSE "returned"
     /\ UNCHANGED <<markdown, tree, edits>>

Next ==
  \/ Drop
  \/ Rekind
  \/ \E n \in Nodes(tree) : Convert(n)

Spec == Init /\ [][Next]_vars

----------------------------------------------------------------------------
(* Headings: a run of number signs, a body and an optional closing run,    *)
(* parsed as an ATX heading of any of the six kinds.                       *)

MaxMark == 6
MaxBody == 3

Hashes(k) == [i \in 1..k |-> "#"]

Bodies == UNION { [1..n -> {" ", "a"}] : n \in 0..MaxBody }

ATXDocument(kind, k, body, closing) ==
  LET text == Hashes(k) \o body \o (IF closing THEN <<"#">> ELSE <<>>)
      marks == <<Leaf("HeaderMark", 0, k)>>
               \o (IF closing
                   THEN <<Leaf("HeaderMark", k + Len(body), k + Len(body) + 1)>>
                   ELSE <<>>)
  IN [markdown |-> text,
      tree |-> Node("Document", 0, Len(text), <<Node(kind, 0, Len(text), marks)>>)]

ATXDocuments ==
  { ATXDocument(kind, k, body, closing) :
      kind \in ATXHeadings, k \in 1..MaxMark, body \in Bodies, closing \in BOOLEAN }

\* Setext headings: a body, a line break and an underline of dashes and equals
\* signs, parsed as a Setext heading of either kind.
MaxUnderline == 2

Underlines == UNION { [1..n -> {"-", "="}] : n \in 1..MaxUnderline }

SetextDocument(kind, body, underline) ==
  LET text == body \o <<"\n">> \o underline
  IN [markdown |-> text,
      tree |-> Node("Document", 0, Len(text), <<
                   Node(kind, 0, Len(text), <<
                       Leaf("HeaderMark", Len(body) + 1, Len(text)) >>) >>)]

SetextDocuments ==
  { SetextDocument(kind, body, underline) :
      kind \in {"SetextHeading1", "SetextHeading2"}, body \in Bodies,
      underline \in Underlines }

HeadingDocuments == ATXDocuments \cup SetextDocuments

InitHeading ==
  /\ \E doc \in HeadingDocuments :
       /\ markdown = doc.markdown
       /\ tree = doc.tree
  /\ edits = 0
  /\ pc = "idle"
  /\ target = Null
  /\ result = NoResult

NextHeading ==
  \/ Drop
  \/ \E n \in Nodes(tree) : Convert(n)

SpecHeading == InitHeading /\ [][NextHeading]_vars

----------------------------------------------------------------------------
(* Attributes: a paragraph that starts with a letter and carries Pandoc    *)
(* attribute blocks, each a brace pair around tokens separated by spaces.  *)

MaxTokens == 2
MaxBlocks == 2

AttributeTokens ==
  { <<".", "a">>, <<".", "b">>, <<"#", "p">>, <<"#", "q">>,
    <<"k", "=", "1">>, <<"k", "=", "2">>,
    <<"i", "d", "=", "z">>, <<"c", "l", "a", "s", "s", "=", "z">> }

TokenLists == UNION { [1..n -> AttributeTokens] : n \in 1..MaxTokens }

BlockLists == UNION { [1..n -> TokenLists] : n \in 1..MaxBlocks }

\* Texts joined by single spaces.
RECURSIVE JoinSpace(_)
JoinSpace(texts) ==
  IF texts = <<>> THEN <<>>
  ELSE IF Len(texts) = 1 THEN Head(texts)
  ELSE Head(texts) \o <<" ">> \o JoinSpace(Tail(texts))

BlockText(tokens) == <<"{">> \o JoinSpace(tokens) \o <<"}">>

RECURSIVE BlocksText(_)
BlocksText(blocks) ==
  IF blocks = <<>> THEN <<>> ELSE BlockText(Head(blocks)) \o BlocksText(Tail(blocks))

RECURSIVE BlockLeaves(_, _)
BlockLeaves(blocks, from) ==
  IF blocks = <<>> THEN <<>>
  ELSE LET to == from + Len(BlockText(Head(blocks)))
       IN <<Leaf("PandocAttribute", from, to)>> \o BlockLeaves(Tail(blocks), to)

AttributeDocument(blocks) ==
  LET text == <<"a">> \o BlocksText(blocks)
  IN [markdown |-> text,
      tree |-> Node("Document", 0, Len(text), <<
                   Node("Paragraph", 0, Len(text), BlockLeaves(blocks, 1)) >>)]

AttributeDocuments == { AttributeDocument(blocks) : blocks \in BlockLists }

InitAttributes ==
  /\ \E doc \in AttributeDocuments :
       /\ markdown = doc.markdown
       /\ tree = doc.tree
  /\ edits = 0
  /\ pc = "idle"
  /\ target = Null
  /\ result = NoResult

NextAttributes == \E n \in Nodes(tree) : Convert(n)

SpecAttributes == InitAttributes /\ [][NextAttributes]_vars

----------------------------------------------------------------------------
(* Footnotes: a letter followed by a footnote marker, a bracket pair with  *)
(* a leading caret around a text of digits, carets and spaces.             *)

MaxLabel == 3

FootnoteContents == UNION { [1..n -> {" ", "^", "1"}] : n \in 0..MaxLabel }

FootnoteDocument(contents) ==
  LET text == <<"a", "[", "^">> \o contents \o <<"]">>
  IN [markdown |-> text,
      tree |-> Node("Document", 0, Len(text), <<
                   Node("Paragraph", 0, Len(text), <<
                       Leaf("Footnote", 1, Len(text)) >>) >>)]

FootnoteDocuments == { FootnoteDocument(contents) : contents \in FootnoteContents }

\* A footnote definition: the label, a bracket pair with a leading caret and a
\* colon after it, a space and a body with an emphasis span.
FootnoteRefDocument(contents) ==
  LET label == <<"[", "^">> \o contents \o <<"]", ":">>
      text == label \o <<" ", "b", " ", "*", "c", "*">>
      n == Len(label)
  IN [markdown |-> text,
      tree |-> Node("Document", 0, n + 6, <<
                   Node("FootnoteRef", 0, n + 6, <<
                       Leaf("FootnoteRefLabel", 0, n),
                       Node("FootnoteRefBody", n + 1, n + 6, <<
                           Node("Emphasis", n + 3, n + 6, <<
                               Leaf("EmphasisMark", n + 3, n + 4),
                               Leaf("EmphasisMark", n + 5, n + 6) >>) >>) >>) >>)]

FootnoteRefDocuments == { FootnoteRefDocument(contents) : contents \in FootnoteContents }

InitFootnote ==
  /\ \E doc \in FootnoteDocuments \cup FootnoteRefDocuments :
       /\ markdown = doc.markdown
       /\ tree = doc.tree
  /\ edits = 0
  /\ pc = "idle"
  /\ target = Null
  /\ result = NoResult

NextFootnote ==
  \/ Drop
  \/ \E n \in Nodes(tree) : Convert(n)

SpecFootnote == InitFootnote /\ [][NextFootnote]_vars

----------------------------------------------------------------------------
(* Tables: lines of one-letter cells between pipes, each line a header row *)
(* or a body row, in any order of the two kinds.                           *)

MaxRows == 3
MaxCells == 2

RowKinds == {"TableHeader", "TableRow"}

\* A row: its kind and its number of cells.
RowShapes == [kind : RowKinds, cells : 1..MaxCells]

TableShapes == UNION { [1..n -> RowShapes] : n \in 1..MaxRows }

\* The text of a row of n cells: a pipe, then n times a letter and a pipe.
RowText(n) == [i \in 1..(2 * n + 1) |-> IF i % 2 = 1 THEN "|" ELSE "a"]

\* The sub-nodes of a row of n cells that starts at from.
RowChildren(n, from) ==
  [i \in 1..(2 * n + 1) |->
     Leaf(IF i % 2 = 1 THEN "TableDelimiter" ELSE "TableCell", from + i - 1, from + i)]

RECURSIVE TableText(_)
TableText(shape) ==
  IF shape = <<>> THEN <<>>
  ELSE RowText(Head(shape).cells)
       \o (IF Len(shape) > 1 THEN <<"\n">> ELSE <<>>) \o TableText(Tail(shape))

RECURSIVE TableRowNodes(_, _)
TableRowNodes(shape, from) ==
  IF shape = <<>> THEN <<>>
  ELSE LET to == from + 2 * Head(shape).cells + 1
       IN <<Node(Head(shape).kind, from, to, RowChildren(Head(shape).cells, from))>>
          \o TableRowNodes(Tail(shape), to + 1)

TableDocument(shape) ==
  LET text == TableText(shape)
  IN [markdown |-> text,
      tree |-> Node("Document", 0, Len(text), <<
                   Node("Table", 0, Len(text), TableRowNodes(shape, 0)) >>)]

TableDocuments == { TableDocument(shape) : shape \in TableShapes }

InitTable ==
  /\ \E doc \in TableDocuments :
       /\ markdown = doc.markdown
       /\ tree = doc.tree
  /\ edits = 0
  /\ pc = "idle"
  /\ target = Null
  /\ result = NoResult

NextTable == \E n \in Nodes(tree) : Convert(n)

SpecTable == InitTable /\ [][NextTable]_vars

----------------------------------------------------------------------------
(* What the properties refer to.                                           *)

Called == pc # "idle"
Returned == pc = "returned"
Raised == pc = "raised"

\* The verbatim source text of the range [from, to).
Verbatim(from, to) == [i \in 1..(to - from) |-> markdown[from + i]]

HasChildren(ast) == "children" \in DOMAIN ast

\* The sub-nodes of a node that the generic aggregation converts.
Convertible(node) == SelectSeq(node.children, LAMBDA c : c.name # "PandocAttribute")

\* The nodes parseNode is applied to, directly and in its recursion, when it
\* is applied to a node and no exception ends the conversion early.
RECURSIVE Dispatched(_)
DispatchedBelow(node) ==
  UNION { Dispatched(c) : c \in { node.children[i] : i \in 1..Len(node.children) }
                                  \ { c \in Nodes(node) : c.name = "PandocAttribute" } }

Dispatched(node) ==
  {node} \cup
  CASE node.name = "FootnoteRef" ->
         IF isNull(getChild(node, "FootnoteRefBody")) THEN {}
         ELSE DispatchedBelow(getChild(node, "FootnoteRefBody"))
    [] node.name = "Highlight" ->
         IF isNull(getChild(node, "HighlightContent")) THEN DispatchedBelow(node)
         ELSE DispatchedBelow(getChild(node, "HighlightContent"))
    [] node.name \in {"OrderedList", "BulletList"} ->
         UNION { DispatchedBelow(item) :
                 item \in { c \in Nodes(node) :
                            \E i \in 1..Len(node.children) :
                              node.children[i] = c /\ c.name = "ListItem" } }
    [] node.name = "Table" ->
         UNION { UNION { DispatchedBelow(cell) :
                         cell \in { c \in Nodes(row) :
                                    \E j \in 1..Len(row.children) :
                                      row.children[j] = c /\ c.name = "TableCell" } } :
                 row \in { r \in Nodes(node) :
                           \E i \in 1..Len(node.children) :
                             node.children[i] = r
                             /\ r.name \in {"TableHeader", "TableRow"} } }
    [] node.name \in SpecialKinds \ {"FootnoteRef", "Highlight", "OrderedList",
                                     "BulletList", "Table", "Emphasis",
                                     "StrongEmphasis"} -> {}
    [] OTHER -> DispatchedBelow(node)

\* A ZknLink node without the ZknLinkContent sub-node.
BrokenZknLink(n) == n.name = "ZknLink" /\ isNull(getChild(n, "ZknLinkContent"))

----------------------------------------------------------------------------
(* C1: whenever parseNode returns, the root of the AST it returns has the  *)
(* range of the node it was applied to: from = n.from and to = n.to.       *)
C1_RootRange ==
  Returned => result.from = target.from /\ result.to = target.to

\* A FootnoteRef whose body, the node that is aggregated, starts later.
C1_Witness ==
  /\ Returned
  /\ target.name = "FootnoteRef"
  /\ ~isNull(getChild(target, "FootnoteRefBody"))
  /\ getChild(target, "FootnoteRefBody").from > target.from
  /\ result.children # <<>>

\* The text ranges an AST holds: its Text leaves and its verbatim fields.
MarkKinds ==
  { "HeaderMark", "CodeMark", "EmphasisMark", "QuoteMark", "ListMark",
    "YAMLFrontmatterStart", "YAMLFrontmatterEnd" }

Range(from, to) == [from |-> from, to |-> to]

RECURSIVE Flatten(_)
Flatten(seqs) == IF seqs = <<>> THEN <<>> ELSE Head(seqs) \o Flatten(Tail(seqs))

\* The range of the source field of a code node: that of the CodeText sub-node,
\* or the span between the two code marks of an inline code.
SourceRange(ast) ==
  LET n == CHOOSE c \in Nodes(tree) :
             /\ c.from = ast.from /\ c.to = ast.to
             /\ c.name \in {"FencedCode", "CodeBlock", "InlineCode"}
      text == getChild(n, "CodeText")
      marks == getChildren(n, "CodeMark")
  IN IF n.name = "InlineCode" THEN <<Range(marks[1].to, marks[2].from)>>
     ELSE IF isNull(text) THEN <<>> ELSE <<Range(text.from, text.to)>>

RECURSIVE TextRanges(_)
TextRanges(ast) ==
  CASE ast.type = "Text" -> <<Range(ast.from, ast.to)>>
    [] ast.type \in {"Heading", "Citation", "ZettelkastenLink", "ZettelkastenTag"} ->
         <<Range(ast.value.from, ast.value.to)>>
    [] ast.type \in {"FencedCode", "YAMLFrontmatter", "InlineCode"} -> SourceRange(ast)
    [] ast.type = "List" ->
         Flatten([i \in 1..Len(ast.items) |-> TextRanges(ast.items[i])])
    [] ast.type = "Table" ->
         Flatten([i \in 1..Len(ast.rows) |-> TextRanges(ast.rows[i])])
    [] ast.type = "TableRow" ->
         Flatten([i \in 1..Len(ast.cells) |-> TextRanges(ast.cells[i])])
    [] ast.type \in {"Link", "Image", "Footnote"} -> <<>>
    [] OTHER -> Flatten([i \in 1..Len(ast.children) |-> TextRanges(ast.children[i])])

NonOverlapping(rs) ==
  \A i, j \in 1..Len(rs) :
    i < j => ~(rs[i].from < rs[j].to /\ rs[j].from < rs[i].to)

CoveredBy(rs, o) == \E i \in 1..Len(rs) : rs[i].from <= o /\ o < rs[i].to

Inside(n, o) == n.from <= o /\ o < n.to

\* The offset lies inside a formatting mark or a Pandoc attribute block.
InMarkOrAttribute(o) ==
  \E n \in Nodes(tree) : n.name \in MarkKinds \cup {"PandocAttribute"} /\ Inside(n, o)

\* The offset lies in a Document, List or ListItem node and in none of its
\* sub-nodes.
DirectlyInContainer(o) ==
  \E n \in Nodes(tree) :
    /\ n.name \in {"Document", "List", "ListItem"}
    /\ Inside(n, o)
    /\ \A i \in 1..Len(n.children) : ~Inside(n.children[i], o)

\* The special-cased kinds whose case keeps selected fields of the node only.
SelectiveKinds == SpecialKinds \ {"Emphasis", "StrongEmphasis", "Citation", "ZknTag"}

InSelectiveKind(o) ==
  \E n \in Nodes(tree) : n.name \in SelectiveKinds /\ Inside(n, o)

WholeDocument ==
  Returned /\ target = tree /\ tree.name = "Document"
           /\ tree.from = 0 /\ tree.to = Len(markdown)

Tiling(rs, from, to) ==
  /\ \A i \in 1..Len(rs) : from <= rs[i].from /\ rs[i].from <= rs[i].to /\ rs[i].to <= to
  /\ \A i \in 1..(Len(rs) - 1) : rs[i].to = rs[i + 1].from
  /\ IF rs = <<>> THEN from = to ELSE rs[1].from = from /\ rs[Len(rs)].to = to

\* The syntax node whose sub-nodes the conversion of a node aggregates into
\* the children of the AST node, if any.
Aggregated(node) ==
  CASE node.name = "Highlight" ->
         IF isNull(getChild(node, "HighlightContent")) THEN node
         ELSE getChild(node, "HighlightContent")
    [] node.name = "FootnoteRef" -> getChild(node, "FootnoteRefBody")
    [] node.name \in SpecialKinds \ {"Emphasis", "StrongEmphasis"} -> Null
    [] OTHER -> node

AttributeNodes(node) == SelectSeq(node.children, LAMBDA c : c.name = "PandocAttribute")

\* Two sequences of ranges, each in document order, merged in document order.
RECURSIVE Merge(_, _)
Merge(xs, ys) ==
  IF xs = <<>> THEN ys
  ELSE IF ys = <<>> THEN xs
  ELSE IF Head(xs).from <= Head(ys).from
       THEN <<Head(xs)>> \o Merge(Tail(xs), ys)
       ELSE <<Head(ys)>> \o Merge(xs, Tail(ys))

RangesOf(seq) == [i \in 1..Len(seq) |-> Range(seq[i].from, seq[i].to)]

(* C3, as stated: the children of every AST node with a children sequence  *)
(* whose kind is not in the empty-node set are consecutive, do not overlap *)
(* and tile exactly the range of that node.                                *)
C3_ChildrenTileNode ==
  (Returned /\ HasChildren(result) /\ target.name \notin EMPTY_NODES) =>
    Tiling(RangesOf(result.children), result.from, result.to)

\* The children of an AST node tile the aggregated syntax node when its Pandoc
\* attribute sub-nodes are counted with them.
TilesAggregated(children, a) ==
  Tiling(Merge(RangesOf(children), RangesOf(AttributeNodes(a))), a.from, a.to)

(* C3, amended: when the children of an AST node are the aggregation of a  *)
(* syntax node A whose kind is not in the empty-node set (the node itself, *)
(* or the HighlightContent or FootnoteRefBody sub-node that is aggregated  *)
(* in its place), the children together with the PandocAttribute sub-nodes *)
(* of A, in document order, are consecutive, do not overlap and tile       *)
(* exactly the range of A.  This holds for table cells as well.            *)
C3_ChildrenTileAggregated ==
  Returned =>
    /\ LET a == Aggregated(target)
       IN (~isNull(a) /\ a.name \notin EMPTY_NODES) => TilesAggregated(result.children, a)
    /\ target.name = "Table" =>
         LET rows == getChildren(target, "TableHeader") \o getChildren(target, "TableRow")
         IN \A i \in 1..Len(rows) :
              LET cells == getChildren(rows[i], "TableCell")
              IN \A j \in 1..Len(cells) :
                   TilesAggregated(result.rows[i].cells[j].children, cells[j])

\* A node with gap text, a converted sub-node and attribute blocks.
C3_Witness ==
  /\ Returned
  /\ target.name \notin EMPTY_NODES
  /\ Aggregated(target) = target
  /\ Len(AttributeNodes(target)) >= 2
  /\ \E i \in 1..Len(result.children) : result.children[i].type = "Text"
  /\ \E i \in 1..Len(result.children) : result.children[i].type = "Emphasis"

(* C4: a node of a kind without a case of its own converts to a Generic    *)
(* node that carries the kind name, its converted children being the       *)
(* conversions of its sub-nodes (Pandoc attributes left out) in order; the *)
(* call raises only when the conversion of one of those sub-nodes raises.  *)
C4_GenericFallback ==
  (Called /\ target.name \notin SpecialKinds) =>
    LET subs == Convertible(target)
    IN IF \E i \in 1..Len(subs) : IsThrow(parseNode(subs[i], markdown))
       THEN Raised
       ELSE /\ Returned
            /\ result.type = "Generic"
            /\ result.name = target.name
            /\ HasChildren(result)
            /\ SelectSeq(result.children, LAMBDA c : c.type # "Text")
                 = [i \in 1..Len(subs) |-> parseNode(subs[i], markdown)]

\* A node of an unknown kind with a converted sub-node and gap text.
C4_Witness ==
  /\ Returned
  /\ target.name = "Foo"
  /\ \E i \in 1..Len(result.children) : result.children[i].type = "Emphasis"
  /\ \E i \in 1..Len(result.children) : result.children[i].type = "Text"

(* C5: applied to a ZknLink without a ZknLinkContent sub-node parseNode    *)
(* raises, and so does every call whose recursion reaches such a node at   *)
(* any depth: no AST is returned.                                          *)
C5_HardFailurePropagates ==
  (Called /\ \E n \in Dispatched(target) : BrokenZknLink(n)) => Raised

\* The conversion of a whole document ended by a broken ZknLink three or more
\* levels down (inside a list item or a table cell).
C5_Witness ==
  /\ Raised
  /\ target = tree
  /\ result = Throw("Error")
  /\ \E n \in Dispatched(target) :
       /\ BrokenZknLink(n)
       /\ \A i \in 1..Len(tree.children) :
            \A j \in 1..Len(tree.children[i].children) :
              n # tree.children[i] /\ n # tree.children[i].children[j]

(* C6: parseNode raises only when its recursion reaches a ZknLink without  *)
(* a ZknLinkContent sub-node, whatever other sub-nodes are missing.        *)
C6_OnlyHardFailure ==
  Raised => \E n \in Dispatched(target) : BrokenZknLink(n)

(* C7: a Link or Image without a URL sub-node converts, without raising,   *)
(* to a Generic node of its kind and range whose only child is a Text leaf *)
(* over the whole range with the verbatim source text.                     *)
C7_MalformedLink ==
  (Called /\ target.name \in {"Link", "Image"} /\ isNull(getChild(target, "URL"))) =>
    /\ Returned
    /\ result = [type |-> "Generic", name |-> target.name,
                 from |-> target.from, to |-> target.to,
                 children |-> << [type |-> "Text", name |-> "text",
                                  from |-> target.from, to |-> target.to,
                                  value |-> Verbatim(target.from, target.to)] >>]

\* A link without a URL that has sub-nodes, none of which is converted.
C7_Witness ==
  /\ Returned
  /\ target.name \in {"Link", "Image"}
  /\ isNull(getChild(target, "URL"))
  /\ Len(target.children) >= 2
  /\ target.to > target.from

(* C8, as stated: every node without sub-nodes whose kind is not in the    *)
(* empty-node set converts to a node with exactly one Text child over its  *)
(* own range holding the verbatim source text, whatever its kind.          *)
WholeText(n) ==
  << [type |-> "Text", name |-> "text", from |-> n.from, to |-> n.to,
      value |-> Verbatim(n.from, n.to)] >>

C8_LeafTextAnyKind ==
  (Called /\ noChild(target) /\ target.name \notin EMPTY_NODES) =>
    Returned /\ HasChildren(result) /\ result.children = WholeText(target)

\* The kinds whose case never aggregates: a node of such a kind without
\* sub-nodes gets fields of its own (or raises) in place of a Text child.
FieldKinds ==
  SpecialKinds \ {"Link", "Image", "Highlight", "Emphasis", "StrongEmphasis"}

(* C8, amended: every node without sub-nodes whose kind is neither in the  *)
(* empty-node set nor one of the special-cased kinds other than Link,      *)
(* Image, Highlight, Emphasis and StrongEmphasis converts to a node with   *)
(* exactly one Text child over its own range holding the verbatim text.    *)
C8_LeafText ==
  (Called /\ noChild(target) /\ target.name \notin EMPTY_NODES
          /\ target.name \notin FieldKinds) =>
    Returned /\ HasChildren(result) /\ result.children = WholeText(target)

C8_Witness ==
  /\ Returned
  /\ noChild(target)
  /\ target.name = "TableCell"
  /\ result.children = WholeText(target)
  /\ result.children[1].value = <<"a">>

----------------------------------------------------------------------------
\* A text without its leading and trailing whitespace.
Trimmed(s) ==
  LET keep == { i \in 1..Len(s) : s[i] \notin WhiteSpace }
  IN IF keep = {} THEN <<>>
     ELSE SubSeq(s, CHOOSE i \in keep : \A j \in keep : i <= j,
                    CHOOSE i \in keep : \A j \in keep : i >= j)

\* The first sub-node of a kind.
FirstOf(node, kind) ==
  node.children[CHOOSE i \in 1..Len(node.children) :
                  /\ node.children[i].name = kind
                  /\ \A j \in 1..(i - 1) : node.children[j].name # kind]

HasHeaderMark(node) == \E i \in 1..Len(node.children) : node.children[i].name = "HeaderMark"

(* C10: an ATX heading with a HeaderMark sub-node converts to a Heading    *)
(* whose level is the length of the first HeaderMark and whose value is    *)
(* the source text from the end of that mark to the end of the node, with  *)
(* leading and trailing whitespace removed; a leading mark of k number     *)
(* signs, 1 <= k <= 6, gives level k.                                      *)
C10_ATXHeading ==
  (Called /\ target.name \in ATXHeadings /\ HasHeaderMark(target)) =>
    LET mark == FirstOf(target, "HeaderMark")
    IN /\ Returned
       /\ result.type = "Heading"
       /\ result.level = mark.to - mark.from
       /\ result.value.type = "Text"
       /\ result.value.value = Trimmed(Verbatim(mark.to, target.to))
       /\ \A k \in 1..6 :
            (mark.from = target.from /\ Verbatim(mark.from, mark.to) = Hashes(k))
              => result.level = k

\* A level-six heading named after another level, with whitespace on both
\* sides of its text and a closing mark.
C10_Witness ==
  /\ Returned
  /\ target.name = "ATXHeading2"
  /\ HasHeaderMark(target)
  /\ result.level = 6
  /\ Len(getChildren(target, "HeaderMark")) = 2
  /\ result.value.value = <<"a", " ", "#">>
  /\ result.value.to - result.value.from = 4

----------------------------------------------------------------------------
SetextKinds == {"SetextHeading1", "SetextHeading2"}

(* C11: a Setext heading of either kind with a HeaderMark sub-node         *)
(* converts to a Heading whose level is 2 when the text of the mark        *)
(* contains a dash and 1 otherwise, whichever of the two kinds the node    *)
(* has, and whose value is the source text from the start of the node to   *)
(* the start of the mark with leading and trailing whitespace removed.     *)
C11_SetextHeading ==
  (Called /\ target.name \in SetextKinds /\ HasHeaderMark(target)) =>
    LET mark == FirstOf(target, "HeaderMark")
    IN /\ Returned
       /\ result.type = "Heading"
       /\ result.level = IF \E i \in 1..Len(Verbatim(mark.from, mark.to)) :
                               Verbatim(mark.from, mark.to)[i] = "-"
                         THEN 2 ELSE 1
       /\ result.value.type = "Text"
       /\ result.value.value = Trimmed(Verbatim(target.from, mark.from))

\* A heading of kind SetextHeading1 underlined with dashes, whitespace on both
\* sides of its text.
C11_Witness ==
  /\ Returned
  /\ target.name = "SetextHeading1"
  /\ HasHeaderMark(target)
  /\ Verbatim(FirstOf(target, "HeaderMark").from, FirstOf(target, "HeaderMark").to)
       = <<"-", "-">>
  /\ Verbatim(target.from, FirstOf(target, "HeaderMark").from) = <<" ", "a", " ", "\n">>
  /\ result.level = 2
  /\ result.value.value = <<"a">>

HeadingKinds == ATXHeadings \cup SetextKinds

(* C12: every Heading that parseNode returns for a node of a heading kind, *)
(* ATX or Setext, with or without a HeaderMark sub-node and whatever the   *)
(* length of the mark, has a level from 1 to 6.                            *)
C12_LevelInRange ==
  (Returned /\ target.name \in HeadingKinds) =>
    result.type = "Heading" /\ result.level \in 1..6

----------------------------------------------------------------------------
ListKinds == {"OrderedList", "BulletList"}

\* The TaskMarker of a list item: that of its first Task sub-node, if any.
TaskMarkerOf(item) ==
  IF isNull(getChild(item, "Task")) THEN Null
  ELSE getChild(getChild(item, "Task"), "TaskMarker")

(* C13: the item converted for a ListItem sub-node of a list has the field *)
(* checked exactly when the ListItem has a Task sub-node that has a        *)
(* TaskMarker sub-node; the field is true when the text of the marker is   *)
(* exactly [x] and false for every other text.                             *)
C13_TaskItems ==
  (Returned /\ target.name \in ListKinds) =>
    LET items == getChildren(target, "ListItem")
    IN /\ Len(result.items) = Len(items)
       /\ \A i \in 1..Len(items) :
            LET m == TaskMarkerOf(items[i])
            IN /\ ("checked" \in DOMAIN result.items[i]) <=> ~isNull(m)
               /\ ~isNull(m) =>
                    (result.items[i].checked
                       <=> Verbatim(m.from, m.to) = <<"[", "x", "]">>)

\* A list with an item marked [X], an item marked [x] and a plain item.
C13_Witness ==
  /\ Returned
  /\ target.name = "BulletList"
  /\ Len(result.items) = 3
  /\ "checked" \in DOMAIN result.items[1] /\ result.items[1].checked = FALSE
  /\ Verbatim(TaskMarkerOf(getChildren(target, "ListItem")[1]).from,
              TaskMarkerOf(getChildren(target, "ListItem")[1]).to) = <<"[", "X", "]">>
  /\ "checked" \in DOMAIN result.items[2] /\ result.items[2].checked = TRUE
  /\ "checked" \notin DOMAIN result.items[3]

----------------------------------------------------------------------------
\* The tokens of the attribute blocks of a node, in document order.
TokensOf(node) ==
  Flatten([i \in 1..Len(AttributeNodes(node)) |->
             splitWhitespace(Verbatim(AttributeNodes(node)[i].from + 1,
                                      AttributeNodes(node)[i].to - 1))])

IsClassToken(t) == t # <<>> /\ t[1] = "."
IsIdToken(t) == t # <<>> /\ t[1] = "#"
IsKeyValueToken(t) == ~IsClassToken(t) /\ ~IsIdToken(t) /\ Len(splitEquals(t)) = 2

Merged == Returned /\ target.name = "Paragraph" /\ AttributeNodes(target) # <<>>

(* C14: when the attribute blocks of one parent are merged in document     *)
(* order, class is the names of all class tokens joined by single spaces   *)
(* in order, id is the name of the first id token, and every key of a      *)
(* key=value token maps to the value of its last occurrence.               *)
C14_AttributeMerge ==
  Merged =>
    LET toks == TokensOf(target)
        attrs == attributesOf(result)
        classes == SelectSeq(toks, IsClassToken)
        ids == SelectSeq(toks, IsIdToken)
        kvs == SelectSeq(toks, IsKeyValueToken)
    IN /\ classes # <<>> =>
            /\ KeyClass \in DOMAIN attrs
            /\ attrs[KeyClass] = JoinSpace([i \in 1..Len(classes) |-> Tail(classes[i])])
       /\ ids # <<>> =>
            /\ KeyId \in DOMAIN attrs
            /\ attrs[KeyId] = Tail(ids[1])
       /\ \A i \in 1..Len(kvs) :
            (\A j \in (i + 1)..Len(kvs) : splitEquals(kvs[j])[1] # splitEquals(kvs[i])[1])
              => /\ splitEquals(kvs[i])[1] \in DOMAIN attrs
                 /\ attrs[splitEquals(kvs[i])[1]] = splitEquals(kvs[i])[2]

\* A token that records an id: an id token, or a key=value token of key id.
RecordsId(t) == IsIdToken(t) \/ (IsKeyValueToken(t) /\ splitEquals(t)[1] = KeyId)

RecordedId(t) == IF IsIdToken(t) THEN Tail(t) ELSE splitEquals(t)[2]

(* C15: once an id is recorded in the attributes of a node, no later token *)
(* of any form, of the same or of a later block, changes it: after the     *)
(* merge the id is the one recorded first.                                 *)
C15_IdFirst ==
  Merged =>
    LET recorders == SelectSeq(TokensOf(target), RecordsId)
        attrs == attributesOf(result)
    IN recorders # <<>> =>
         /\ KeyId \in DOMAIN attrs
         /\ attrs[KeyId] = RecordedId(recorders[1])

----------------------------------------------------------------------------
HasKind(node, kind) == \E i \in 1..Len(node.children) : node.children[i].name = kind

\* The verbatim text of the first sub-node of a kind, empty without one.
TextOfFirst(node, kind) ==
  IF HasKind(node, kind)
  THEN Verbatim(FirstOf(node, kind).from, FirstOf(node, kind).to)
  ELSE <<>>

CodeKinds == {"FencedCode", "CodeBlock"}

----------------------------------------------------------------------------
(* C17: an InlineCode node with two CodeMark sub-nodes converts to a node  *)
(* whose source is the source text from the end of the first CodeMark to   *)
(* the start of the second, verbatim; the node has no children and no      *)
(* field other than its type, kind, range and source.                      *)
C17_InlineCode ==
  (Called /\ target.name = "InlineCode" /\ Len(getChildren(target, "CodeMark")) >= 2) =>
    LET marks == getChildren(target, "CodeMark")
    IN /\ Returned
       /\ result.type = "InlineCode"
       /\ DOMAIN result = {"type", "name", "from", "to", "source"}
       /\ result.source = Verbatim(marks[1].to, marks[2].from)

\* An inline code span whose text reads as a highlight.
C17_Witness ==
  /\ Returned
  /\ target.name = "InlineCode"
  /\ result.source = <<"=", "=", "a", "=", "=">>
  /\ ~HasChildren(result)

----------------------------------------------------------------------------
(* C18, as stated: the AST node produced for a syntax node carries the     *)
(* kind name of that node in its field name, for every kind.               *)
C18_KindName ==
  Returned => result.name = target.name

\* The name the conversion gives the AST node of a syntax node.
NameOf(node) ==
  CASE node.name = "StrongEmphasis" -> "Emphasis"
    [] node.name \in CodeKinds ->
         IF HasKind(node, "YAMLFrontmatterStart") THEN "YAMLFrontmatter" ELSE "FencedCode"
    [] OTHER -> node.name

(* C18, amended: the AST node produced for a syntax node carries the kind  *)
(* name of that node in its field name, except that a StrongEmphasis node  *)
(* is named Emphasis, a CodeBlock node FencedCode, and a FencedCode or     *)
(* CodeBlock node with a YAMLFrontmatterStart sub-node YAMLFrontmatter.    *)
(* The items of a list, the rows and the cells of a table carry the kind   *)
(* names of the ListItem, TableHeader, TableRow and TableCell nodes.       *)
C18_KindNameExceptRenamed ==
  Returned =>
    /\ result.name = NameOf(target)
    /\ target.name \in ListKinds =>
         \A i \in 1..Len(result.items) : result.items[i].name = "ListItem"
    /\ target.name = "Table" =>
         LET rows == getChildren(target, "TableHeader") \o getChildren(target, "TableRow")
         IN /\ Len(result.rows) = Len(rows)
            /\ \A i \in 1..Len(rows) :
                 /\ result.rows[i].name = rows[i].name
                 /\ \A j \in 1..Len(result.rows[i].cells) :
                      result.rows[i].cells[j].name = "TableCell"

\* A table with a header row and a body row, each with a cell.
C18_Witness ==
  /\ Returned
  /\ target.name = "Table"
  /\ Len(result.rows) = 2
  /\ result.rows[1].name = "TableHeader" /\ result.rows[1].cells # <<>>
  /\ result.rows[2].name = "TableRow" /\ result.rows[2].cells # <<>>

----------------------------------------------------------------------------
LinkKinds == {"Link", "Image"}

\* The Text leaf over a range of the source.
TextOver(from, to) ==
  [type |-> "Text", name |-> "text", from |-> from, to |-> to,
   value |-> Verbatim(from, to)]

(* C19: for a Link or Image node with a URL sub-node, url is a Text over   *)
(* the range of the URL sub-node with its verbatim text; alt is a Text     *)
(* over the LinkLabel sub-node when the node has one, and without one,     *)
(* when the node has two LinkMark sub-nodes or more, a Text over the span  *)
(* from the end of the first LinkMark to the start of the second.          *)
C19_LinkAlt ==
  (Called /\ target.name \in LinkKinds /\ HasKind(target, "URL")) =>
    LET url == FirstOf(target, "URL")
        marks == getChildren(target, "LinkMark")
    IN /\ Returned
       /\ result.url = TextOver(url.from, url.to)
       /\ HasKind(target, "LinkLabel") =>
            result.alt = TextOver(FirstOf(target, "LinkLabel").from,
                                  FirstOf(target, "LinkLabel").to)
       /\ (~HasKind(target, "LinkLabel") /\ Len(marks) >= 2) =>
            result.alt = TextOver(marks[1].to, marks[2].from)

----------------------------------------------------------------------------
\* The label and the inline flag a footnote marker gets for contents c.
FootnoteFields(c) ==
  LET inline == c # <<>> /\ c[Len(c)] = "^"
  IN [inline |-> inline, label |-> IF inline THEN SubSeq(c, 1, Len(c) - 1) ELSE c]

(* C20, as stated: for a Footnote node, with c the source text between the *)
(* leading bracket and caret and the trailing bracket, trimmed of          *)
(* surrounding whitespace, inline is true exactly when c ends with a caret *)
(* and label is c without that caret when inline and c otherwise.          *)
C20_FootnoteTrimmed ==
  (Called /\ target.name = "Footnote") =>
    LET f == FootnoteFields(Trimmed(Verbatim(target.from + 2, target.to - 1)))
    IN Returned /\ result.inline = f.inline /\ result.label = f.label

(* C20, amended: for a Footnote node over a bracket pair with a leading    *)
(* caret, with c the source text between the leading bracket and caret and *)
(* the trailing bracket taken verbatim, whitespace included, inline is     *)
(* true exactly when c ends with a caret and label is c without that caret *)
(* when inline and c otherwise.                                            *)
C20_FootnoteVerbatim ==
  (Called /\ target.name = "Footnote") =>
    LET f == FootnoteFields(Verbatim(target.from + 2, target.to - 1))
    IN Returned /\ result.inline = f.inline /\ result.label = f.label

\* An inline footnote whose contents start with a space.
C20_Witness ==
  /\ Returned
  /\ target.name = "Footnote"
  /\ Verbatim(target.from, target.to) = <<"[", "^", " ", "1", "^", "]">>
  /\ result.inline = TRUE
  /\ result.label = <<" ", "1">>

----------------------------------------------------------------------------
\* The children the generic aggregation of a node yields: the whole text of a
\* node without sub-nodes, else the conversions of its sub-nodes (Pandoc
\* attributes left out) in order, among gap Text leaves.
IsAggregationOf(children, node) ==
  IF noChild(node)
  THEN children = (IF node.name \in EMPTY_NODES THEN <<>> ELSE WholeText(node))
  ELSE SelectSeq(children, LAMBDA c : c.type # "Text")
         = [i \in 1..Len(Convertible(node)) |-> parseNode(Convertible(node)[i], markdown)]

(* C21: the rows of a converted Table are its TableHeader sub-nodes in     *)
(* document order followed by its TableRow sub-nodes in document order,    *)
(* also when a TableHeader follows a TableRow; isHeaderOrFooter is true    *)
(* exactly for the rows from a TableHeader; the cells of a row are its     *)
(* TableCell sub-nodes in document order with aggregated children.         *)
C21_TableRows ==
  (Returned /\ target.name = "Table") =>
    LET rows == getChildren(target, "TableHeader") \o getChildren(target, "TableRow")
    IN /\ Len(result.rows) = Len(rows)
       /\ \A i \in 1..Len(rows) :
            LET cells == getChildren(rows[i], "TableCell")
                row == result.rows[i]
            IN /\ row.type = "TableRow"
               /\ row.from = rows[i].from /\ row.to = rows[i].to
               /\ row.isHeaderOrFooter = (rows[i].name = "TableHeader")
               /\ Len(row.cells) = Len(cells)
               /\ \A j \in 1..Len(cells) :
                    /\ row.cells[j].type = "TableCell"
                    /\ row.cells[j].from = cells[j].from
                    /\ row.cells[j].to = cells[j].to
                    /\ IsAggregationOf(row.cells[j].children, cells[j])

\* A table whose header row follows a body row and comes first in the rows.
C21_Witness ==
  /\ Returned
  /\ target.name = "Table"
  /\ Len(target.children) = 3
  /\ target.children[1].name = "TableRow"
  /\ target.children[2].name = "TableHeader"
  /\ result.rows[1].from = target.children[2].from
  /\ result.rows[1].isHeaderOrFooter
  /\ Len(result.rows[1].cells) = 2
  /\ ~result.rows[2].isHeaderOrFooter

----------------------------------------------------------------------------
\* The AST nodes an AST node holds directly: in its children, items, rows and
\* cells, and in its Text fields.
Held(ast) ==
  (IF "children" \in DOMAIN ast THEN ast.children ELSE <<>>)
  \o (IF "items" \in DOMAIN ast THEN ast.items ELSE <<>>)
  \o (IF "rows" \in DOMAIN ast THEN ast.rows ELSE <<>>)
  \o (IF "cells" \in DOMAIN ast THEN ast.cells ELSE <<>>)
  \o (IF "value" \in DOMAIN ast /\ ast.type # "Text" THEN <<ast.value>> ELSE <<>>)
  \o (IF "url" \in DOMAIN ast THEN <<ast.url>> ELSE <<>>)
  \o (IF "alt" \in DOMAIN ast THEN <<ast.alt>> ELSE <<>>)

\* An AST node and all the nodes below it.
RECURSIVE AstNodes(_)
AstNodes(ast) ==
  {ast} \cup UNION { AstNodes(Held(ast)[i]) : i \in 1..Len(Held(ast)) }

AstBelow(ast) == UNION { AstNodes(Held(ast)[i]) : i \in 1..Len(Held(ast)) }

\* Every attribute block of the node is a brace pair around its tokens.
BracedBlocks(node) ==
  \A i \in 1..Len(AttributeNodes(node)) :
    AttributeNodes(node)[i].to - AttributeNodes(node)[i].from >= 2

\* The attributes of an AST node are those of the attribute blocks of the
\* aggregated node, merged in document order, and absent without a block.
AttributesFrom(ast, node) ==
  IF AttributeNodes(node) = <<>>
  THEN "attributes" \notin DOMAIN ast
  ELSE /\ "attributes" \in DOMAIN ast
       /\ BracedBlocks(node) =>
            ast.attributes = applyAttributes(NoAttributes, TokensOf(node))

(* C22: in an AST that parseNode returns no node below the root has the    *)
(* kind PandocAttribute; the attribute blocks met by the generic           *)
(* aggregation of a node are merged into the attributes of the AST node    *)
(* that is built from that aggregation, and into no other node: a node     *)
(* whose aggregation meets no block has no attributes.                     *)
C22_AttributesToParent ==
  Returned =>
    /\ \A n \in AstBelow(result) : n.name # "PandocAttribute"
    /\ IF isNull(Aggregated(target))
       THEN "attributes" \notin DOMAIN result
       ELSE AttributesFrom(result, Aggregated(target))
    /\ target.name \in ListKinds =>
         \A i \in 1..Len(result.items) :
           AttributesFrom(result.items[i], getChildren(target, "ListItem")[i])
    /\ target.name = "Table" =>
         LET rows == getChildren(target, "TableHeader") \o getChildren(target, "TableRow")
         IN \A i \in 1..Len(rows) :
              /\ "attributes" \notin DOMAIN result.rows[i]
              /\ \A j \in 1..Len(result.rows[i].cells) :
                   AttributesFrom(result.rows[i].cells[j],
                                  getChildren(rows[i], "TableCell")[j])

\* A node with a block before and a block after a converted sub-node: both are
\* in its attributes and the child has none.
C22_Witness ==
  /\ Returned
  /\ target.name = "Foo"
  /\ Len(AttributeNodes(target)) = 2
  /\ "attributes" \in DOMAIN result
  /\ DOMAIN result.attributes = {KeyClass, KeyId}
  /\ \E i \in 1..Len(result.children) :
       result.children[i].type = "Emphasis" /\ "attributes" \notin DOMAIN result.children[i]

----------------------------------------------------------------------------
(* C23: an Image or Link node with a URL sub-node and an attribute block   *)
(* of its own converts to a node whose attributes are the parsed contents  *)
(* of that block.                                                          *)
C23_ImageAttributes ==
  (Called /\ target.name \in LinkKinds /\ HasKind(target, "URL")
          /\ AttributeNodes(target) # <<>> /\ BracedBlocks(target)) =>
    /\ Returned
    /\ "attributes" \in DOMAIN result
    /\ result.attributes = applyAttributes(NoAttributes, TokensOf(target))

----------------------------------------------------------------------------
\* The conversions of the sub-nodes of a node, Pandoc attributes left out.
Conversions(node) ==
  [i \in 1..Len(Convertible(node)) |-> parseNode(Convertible(node)[i], markdown)]

(* C24: when the generic aggregation runs on a node whose kind is in the   *)
(* empty-node set, the children hold no synthesized Text leaf: they are    *)
(* exactly the conversions of its sub-nodes other than Pandoc attributes,  *)
(* in document order, whatever the kinds of those sub-nodes.  This holds   *)
(* for the items of a list as well.                                        *)
C24_EmptyNodesNoText ==
  Returned =>
    /\ LET a == Aggregated(target)
       IN (~isNull(a) /\ a.name \in EMPTY_NODES) => result.children = Conversions(a)
    /\ target.name \in ListKinds =>
         \A i \in 1..Len(result.items) :
           result.items[i].children = Conversions(getChildren(target, "ListItem")[i])

\* A document whose sub-nodes, none of an empty kind, leave a gap between them
\* and hold text of their own.
C24_Witness ==
  /\ Returned
  /\ target.name = "Document"
  /\ Len(target.children) = 2
  /\ target.children[1].to < target.children[2].from
  /\ target.children[2].name = "Paragraph"
  /\ Len(result.children) = 2
  /\ \E i \in 1..Len(result.children[2].children) :
       result.children[2].children[i].type = "Text"

----------------------------------------------------------------------------
(* C25: a FootnoteRef node converts to a node with the range of the        *)
(* FootnoteRef node; its label is the text of the FootnoteRefLabel         *)
(* sub-node without its first two and its last two characters, empty       *)
(* without such a sub-node; its children are the generic aggregation of    *)
(* the FootnoteRefBody sub-node over the range of the body, empty without  *)
(* a body.                                                                 *)
C25_FootnoteRef ==
  (Returned /\ target.name = "FootnoteRef") =>
    LET label == getChild(target, "FootnoteRefLabel")
        body == getChild(target, "FootnoteRefBody")
    IN /\ result.type = "FootnoteRef"
       /\ result.from = target.from /\ result.to = target.to
       /\ result.label = IF isNull(label) THEN <<>>
                         ELSE Verbatim(label.from + 2, label.to - 2)
       /\ IF isNull(body) THEN result.children = <<>>
          ELSE /\ IsAggregationOf(result.children, body)
               /\ TilesAggregated(result.children, body)

\* A definition whose label holds a space and a caret, and whose body holds gap
\* text and an emphasis span.
C25_Witness ==
  /\ Returned
  /\ target.name = "FootnoteRef"
  /\ result.label = <<" ", "^">>
  /\ Len(result.children) = 2
  /\ result.children[1].type = "Text"
  /\ result.children[1].from > target.from
  /\ result.children[2].type = "Emphasis"

----------------------------------------------------------------------------
(* C26: an OrderedList or BulletList node converts to a List that is       *)
(* ordered exactly when the kind is OrderedList, with one ListItem per     *)
(* ListItem sub-node in document order; the marker of an item has the      *)
(* range of its ListMark sub-node, or the empty range at the start of the  *)
(* item without one; the marker has a symbol exactly when the list is      *)
(* unordered and the ListMark is one character long, and it is that        *)
(* character.                                                              *)
C26_ListMarkers ==
  (Returned /\ target.name \in ListKinds) =>
    LET items == getChildren(target, "ListItem")
    IN /\ result.type = "List"
       /\ result.ordered = (target.name = "OrderedList")
       /\ Len(result.items) = Len(items)
       /\ \A i \in 1..Len(items) :
            LET mark == getChild(items[i], "ListMark")
                item == result.items[i]
            IN /\ item.type = "ListItem"
               /\ item.from = items[i].from /\ item.to = items[i].to
               /\ item.marker.from = (IF isNull(mark) THEN items[i].from ELSE mark.from)
               /\ item.marker.to = (IF isNull(mark) THEN items[i].from ELSE mark.to)
               /\ ("symbol" \in DOMAIN item.marker)
                    <=> (target.name = "BulletList" /\ ~isNull(mark)
                         /\ mark.to - mark.from = 1)
               /\ "symbol" \in DOMAIN item.marker =>
                    item.marker.symbol = Verbatim(mark.from, mark.to)

\* An unordered list whose items are marked with a dash and with a plus sign.
C26_Witness ==
  /\ Returned
  /\ target.name = "BulletList"
  /\ ~result.ordered
  /\ Len(result.items) = 2
  /\ result.items[1].marker = [from |-> 0, to |-> 1, symbol |-> <<"-">>]
  /\ result.items[2].marker.symbol = <<"+">>

----------------------------------------------------------------------------
(* C27: every Text node of an AST that parseNode returns, in a children    *)
(* sequence or in a value, url or alt field, heading values included, has  *)
(* as value the source text of its range, so that the length of the value  *)
(* is to - from.                                                           *)
C27_TextByteAccurate ==
  Returned =>
    \A n \in AstNodes(result) :
      n.type = "Text" => (n.from <= n.to /\ n.value = Verbatim(n.from, n.to))

----------------------------------------------------------------------------
\* A range that lies inside the range of an AST node.
Within(r, ast) == ast.from <= r.from /\ r.from <= r.to /\ r.to <= ast.to

(* C28: in the AST of a well-formed syntax tree every node has from <= to  *)
(* and every node held by another node (in its children, items, rows or    *)
(* cells, or in a value, url or alt field) lies inside the range of that   *)
(* node, and so does the marker range of a list item.                      *)
C28_RangeNesting ==
  Returned =>
    \A h \in AstNodes(result) :
      /\ h.from <= h.to
      /\ \A i \in 1..Len(Held(h)) : Within(Held(h)[i], h)
      /\ h.type = "ListItem" => Within(h.marker, h)

\* A list whose items hold markers, gap text and a Zettelkasten link with its
\* value.
C28_Witness ==
  /\ Returned
  /\ target.name = "BulletList"
  /\ Len(result.items) = 2
  /\ result.items[1].marker.to > result.items[1].marker.from
  /\ \E n \in AstNodes(result) :
       n.type = "ZettelkastenLink" /\ n.value.from > n.from /\ n.value.to < n.to

----------------------------------------------------------------------------
\* The formatting-mark sub-nodes of an aggregated node are kept among the
\* children, each at its position among the converted sub-nodes, as a Generic
\* node of its kind and range without children, and no Text leaf of the
\* children overlaps its range.
MarksKept(children, node) ==
  LET converted == SelectSeq(children, LAMBDA c : c.type # "Text")
      texts == SelectSeq(children, LAMBDA c : c.type = "Text")
      subs == Convertible(node)
  IN /\ Len(converted) = Len(subs)
     /\ \A i \in 1..Len(subs) :
          (subs[i].name \in MarkKinds /\ noChild(subs[i])) =>
            /\ converted[i] = [type |-> "Generic", name |-> subs[i].name,
                               from |-> subs[i].from, to |-> subs[i].to,
                               children |-> <<>>]
            /\ \A j \in 1..Len(texts) :
                 texts[j].to <= subs[i].from \/ subs[i].to <= texts[j].from

(* C29: a sub-node of a formatting-mark kind that has no sub-nodes and is  *)
(* reached by the generic aggregation stays in the AST: it is in the       *)
(* children of its parent, at its position in document order, as a Generic *)
(* node with its kind and range and an empty children sequence, and its    *)
(* characters are in no Text leaf.  This holds for list items as well.     *)
C29_MarksKept ==
  Returned =>
    /\ ~isNull(Aggregated(target)) => MarksKept(result.children, Aggregated(target))
    /\ target.name \in ListKinds =>
         \A i \in 1..Len(result.items) :
           MarksKept(result.items[i].children, getChildren(target, "ListItem")[i])

\* An emphasis span: its two marks around the text between them.
C29_Witness ==
  /\ Returned
  /\ target.name = "Emphasis"
  /\ Len(result.children) = 3
  /\ result.children[1] = [type |-> "Generic", name |-> "EmphasisMark",
                           from |-> target.from, to |-> target.from + 1,
                           children |-> <<>>]
  /\ result.children[2].type = "Text"
  /\ result.children[3].name = "EmphasisMark"

----------------------------------------------------------------------------
(* The invocations of parseNode during a conversion: the nodes parseNode   *)
(* is applied to, in call order, when no exception cuts the conversion     *)
(* short (an exception leaves a prefix of them).                           *)

RECURSIVE Calls(_)

\* The calls of the loop of parseChildren on a node.
CallsBelow(node) ==
  Flatten([i \in 1..Len(Convertible(node)) |-> Calls(Convertible(node)[i])])

\* The calls made if the Highlight case aggregated its content and the node.
CallsHighlightTwice(node) ==
  <<node>> \o
  CASE node.name = "FootnoteRef" ->
         IF isNull(getChild(node, "FootnoteRefBody")) THEN <<>>
         ELSE CallsBelow(getChild(node, "FootnoteRefBody"))
    [] node.name = "Highlight" ->
         (IF isNull(getChild(node, "HighlightContent")) THEN <<>>
          ELSE CallsBelow(getChild(node, "HighlightContent")))
         \o CallsBelow(node)
    [] node.name \in {"OrderedList", "BulletList"} ->
         Flatten([i \in 1..Len(getChildren(node, "ListItem")) |->
                    CallsBelow(getChildren(node, "ListItem")[i])])
    [] node.name = "Table" ->
         LET rows == getChildren(node, "TableHeader") \o getChildren(node, "TableRow")
         IN Flatten([i \in 1..Len(rows) |->
                       Flatten([j \in 1..Len(getChildren(rows[i], "TableCell")) |->
                                  CallsBelow(getChildren(rows[i], "TableCell")[j])])])
    [] node.name \in {"Emphasis", "StrongEmphasis"} -> CallsBelow(node)
    [] node.name \in SpecialKinds \ {"FootnoteRef", "Highlight", "OrderedList",
                                     "BulletList", "Table", "Emphasis",
                                     "StrongEmphasis"} -> <<>>
    [] OTHER -> CallsBelow(node)

\* The calls of parseNode(node): the call itself, then those of its case.
Calls(node) ==
  <<node>> \o
  CASE node.name = "FootnoteRef" ->
         IF isNull(getChild(node, "FootnoteRefBody")) THEN <<>>
         ELSE CallsBelow(getChild(node, "FootnoteRefBody"))
    [] node.name = "Highlight" ->
         IF isNull(getChild(node, "HighlightContent")) THEN CallsBelow(node)
         ELSE CallsBelow(getChild(node, "HighlightContent"))
    [] node.name \in {"OrderedList", "BulletList"} ->
         Flatten([i \in 1..Len(getChildren(node, "ListItem")) |->
                    CallsBelow(getChildren(node, "ListItem")[i])])
    [] node.name = "Table" ->
         LET rows == getChildren(node, "TableHeader") \o getChildren(node, "TableRow")
         IN Flatten([i \in 1..Len(rows) |->
                       Flatten([j \in 1..Len(getChildren(rows[i], "TableCell")) |->
                                  CallsBelow(getChildren(rows[i], "TableCell")[j])])])
    [] node.name \in {"Emphasis", "StrongEmphasis"} -> CallsBelow(node)
    [] node.name \in SpecialKinds \ {"FootnoteRef", "Highlight", "OrderedList",
                                     "BulletList", "Table", "Emphasis",
                                     "StrongEmphasis"} -> <<>>
    [] OTHER -> CallsBelow(node)

(* C30: parseNode terminates, returning or raising, on every finite syntax *)
(* tree, and during a conversion it is applied at most once to each syntax *)
(* node: every call is on the node converted or on a node below it, no     *)
(* node is called twice (not in the Highlight fallback onto the node       *)
(* itself, not in the aggregation of a FootnoteRef body), so the calls are *)
(* at most as many as the nodes of the tree, and the AST returned holds    *)
(* one node per call besides its Text nodes, list items, rows and cells.   *)
C30_DispatchedOnce ==
  Called =>
    LET calls == Calls(target)
    IN /\ Returned \/ Raised
       /\ \A i \in 1..Len(calls) : calls[i] \in Nodes(target)
       /\ \A i, j \in 1..Len(calls) : i # j => calls[i] # calls[j]
       /\ Len(calls) <= Cardinality(Nodes(target))
       /\ { calls[i] : i \in 1..Len(calls) } = Dispatched(target)
       /\ Returned =>
            Cardinality({ n \in AstNodes(result) :
                            n.type \notin {"Text", "ListItem", "TableRow", "TableCell"} })
              = Len(calls)

\* A highlight without its content sub-node: the node itself is aggregated and
\* each of its marks is converted once.
C30_Witness ==
  /\ Returned
  /\ target.name = "Highlight"
  /\ isNull(getChild(target, "HighlightContent"))
  /\ Len(target.children) = 2
  /\ Len(Calls(target)) = 3

====
